---- MODULE Spec2Model ----
(***************************************************************************)
(* Verification model of the ryushin containers.                           *)
(*                                                                         *)
(* TreeMap (treemap/treemap.go) is modelled with an explicit node store:   *)
(* every *Node is an id in NodeIds, Nil is the nil pointer, and the struct *)
(* fields key, value, color, left, right, parent are tables indexed by id. *)
(*                                                                         *)
(* BinaryHeap (the priorityqueue implementation with a cmp field) is a     *)
(* record of its backing slice and the name of its comparator.             *)
(*                                                                         *)
(* Stack (stack/stack.go) and Queue (queue/queue.go) are records of their  *)
(* int fields and their backing slice, a sequence; DoublyLinkedList        *)
(* (linkedlist/linked_list.go) has a node store like the TreeMap;          *)
(* UnorderedSet is a record of its item set. Each is run by one caller     *)
(* next to an abstract sequence, and by goroutines one statement per step. *)
(*                                                                         *)
(* Trie (the mutex-guarded version) names each *Node by the runes on the   *)
(* path from root to it; a node's children map is the set of runes with a  *)
(* child, and the child for rune ch of node p is the node Append(p, ch).   *)
(***************************************************************************)
EXTENDS Integers, Sequences, FiniteSets, TLC

\* ---------------------------------------------------------------- bounds
MaxKey == 5      \* TreeMap keys are 0..MaxKey
MaxHeap == 5     \* Add is not called on a heap of MaxHeap elements
MaxElem == 2     \* elements of the natural-order heap are 0..MaxElem
MaxLived == 1    \* Person.Lived is 0..MaxLived
MaxCalls == 2    \* calls each goroutine makes on the shared structure
MaxStack == 34   \* Push is not called on a stack of MaxStack elements
MaxFree == 3     \* elements stored at depth MaxFree or more are fixed by depth
MaxEnqueue == 19 \* Enqueue is called at most MaxEnqueue times
MaxClear == 1    \* Queue.Clear is called at most MaxClear times
MaxFirst == 1    \* elements enqueued behind MaxFirst or more others are fixed by position
MaxList == 4     \* nothing is added to a list of MaxList elements
MaxListCalls == 1 \* calls each goroutine makes on the shared list
MaxWord == 3      \* words given to the Trie have at most MaxWord runes
MaxWords == 3     \* Insert is not called on a trie of MaxWords words
MaxIterCalls == 5 \* calls and receives the consuming goroutine makes
MaxDeep == 9      \* keys of the deep TreeMap are 0..MaxDeep
MaxRaceKey == 4   \* keys of the TreeMap the goroutines share are 0..MaxRaceKey
MaxShared == 3    \* keys put before the TreeMap is shared
MaxRaceCalls == 1 \* calls each goroutine makes on the shared TreeMap

\* keys are ints (0 is the zero key); values are strings ("" is the zero value)
KeySet == 0..MaxKey
ValSet == {"", "v"}

\* ------------------------------------------------------------- constants
Nil == 0
Red == TRUE
Black == FALSE
ZeroK == 0
ZeroV == ""

\* node addresses: one per key plus one for the node Put builds for a key
\* that is already stored
Scratch == MaxKey + 2
NodeIds == 1..Scratch

VARIABLES
    tm,      \* the TreeMap: root, size and the node store
    panic,   \* TRUE once an operation has dereferenced a nil pointer
    trace,   \* observed branches of the last call (the labels in Observed)
    op,      \* the last call: its name and whether its key was stored
    ret,     \* what the last call returned
    m,       \* abstract key -> value map run side by side with the tree
    bh,      \* the comparator-based BinaryHeap: data and cmp
    net,     \* Add calls minus successful Poll calls since construction or Clear
    sorted,  \* what the last Sort returned and the Polls since have not yet taken
    mh,      \* the min-heap without comparator: its backing slice
    mutex,   \* the sync.RWMutex of the shared heap
    pc,      \* per goroutine: the statement it is at
    local,   \* per goroutine: the call it is in and its local variables
    stack,   \* the Stack: cap, top and data
    queue,   \* the Queue: front, rear, cap, count and data
    list,    \* the DoublyLinkedList: size, head, tail and the node store
    set,     \* the UnorderedSet: items
    abs,     \* abstract sequence run side by side with the container
    crash,   \* TRUE once a call has indexed a slice out of range or through nil
    trie,    \* the Trie: size and the nodes below root
    words,   \* abstract set of words run side by side with the trie
    log      \* per goroutine: the calls that have returned, with their results

treeVars == <<tm, panic, trace, m>>
heapVars == <<bh, net, sorted>>
minVars == <<mh>>
procVars == <<mutex, pc, local, log>>
trieVars == <<trie, words>>
contVars == <<stack, queue, list, set, abs, crash, trieVars>>
vars == <<treeVars, heapVars, minVars, procVars, contVars, op, ret>>

\* ------------------------------------------------------------ node store
NewTreeMap ==
    [root |-> Nil, size |-> 0,
     key    |-> [n \in NodeIds |-> ZeroK],
     value  |-> [n \in NodeIds |-> ZeroV],
     color  |-> [n \in NodeIds |-> Black],
     left   |-> [n \in NodeIds |-> Nil],
     right  |-> [n \in NodeIds |-> Nil],
     parent |-> [n \in NodeIds |-> Nil]]

\* an operation runs on the object extended with its panic flag and trace
Run(t) == t @@ [panic |-> FALSE, path |-> {}]

Obj(r) == [root |-> r.root, size |-> r.size, key |-> r.key, value |-> r.value,
           color |-> r.color, left |-> r.left, right |-> r.right,
           parent |-> r.parent]

Mark(t, lbl) == [t EXCEPT !.path = @ \cup {lbl}]

\* a node is live when the tree still links to it
Live(t, n) == n = t.root \/ t.parent[n] # Nil

\* address of a freshly built node for key k
Alloc(t, k) == IF Live(t, k + 1) THEN Scratch ELSE k + 1

\* an unreachable node is reclaimed by the garbage collector
Collect(t, n) ==
    [t EXCEPT !.key[n] = ZeroK, !.value[n] = ZeroV, !.color[n] = Black,
              !.left[n] = Nil, !.right[n] = Nil, !.parent[n] = Nil]

\* ---------------------------------------------------------------- utility
isRed(t, n) == IF n = Nil THEN FALSE ELSE t.color[n] = Red

getGrandParent(t, n) ==
    IF n = Nil \/ t.parent[n] = Nil THEN Nil ELSE t.parent[t.parent[n]]

\* ----------------------------------------------- statements on the store
setLeft(t, n, v) == [t EXCEPT !.left[n] = v]
setRight(t, n, v) == [t EXCEPT !.right[n] = v]
setParent(t, n, v) == [t EXCEPT !.parent[n] = v]
setColor(t, n, c) == [t EXCEPT !.color[n] = c]

\* "if n != nil { n.parent = v }" and "if n != nil { n.color = c }"
setParentIf(t, n, v) == IF n # Nil THEN setParent(t, n, v) ELSE t
setColorIf(t, n, c) == IF n # Nil THEN setColor(t, n, c) ELSE t

\* the link that led to old (the root, or a child of p) now leads to new
replaceChild(t, p, old, new) ==
    IF p = Nil THEN [t EXCEPT !.root = new]
    ELSE IF old = t.left[p] THEN setLeft(t, p, new)
    ELSE setRight(t, p, new)

\* a nil pointer is dereferenced: the call panics
raise(t) == [t EXCEPT !.panic = TRUE]

\* ------------------------------------------------------------- rotations
rotateLeft(t, x) ==
    LET y == t.right[x] IN
    IF y = Nil THEN raise(t)
    ELSE Mark(setParent(
                setLeft(
                  replaceChild(
                    setParent(
                      setParentIf(setRight(t, x, t.left[y]), t.left[y], x),
                      y, t.parent[x]),
                    t.parent[x], x, y),
                  y, x),
                x, y), "rotateLeft")

rotateRight(t, x) ==
    LET y == t.left[x] IN
    IF y = Nil THEN raise(t)
    ELSE Mark(setParent(
                setRight(
                  replaceChild(
                    setParent(
                      setParentIf(setLeft(t, x, t.right[y]), t.right[y], x),
                      y, t.parent[x]),
                    t.parent[x], x, y),
                  y, x),
                x, y), "rotateRight")

\* ------------------------------------------------------------- fixInsert
\* Case 3, left-left: recolour and rotate the grandparent right
fixInsertCase3Left(t, n, g) ==
    IF t.panic THEN t
    ELSE rotateRight(Mark(setColor(setColor(t, t.parent[n], Black), g, Red),
                          "fi_left_case3"), g)

\* variant: the grandparent is rotated the wrong way
fixInsertCase3Right_wrongWay(t, n, g) ==
    IF t.panic THEN t
    ELSE rotateRight(Mark(setColor(setColor(t, t.parent[n], Black), g, Red),
                          "fi_right_case3"), g)

\* Case 3, right-right: recolour and rotate the grandparent left
fixInsertCase3Right(t, n, g) ==
    IF t.panic THEN t
    ELSE rotateLeft(Mark(setColor(setColor(t, t.parent[n], Black), g, Red),
                         "fi_right_case3"), g)

\* uncle black, parent is the left child of g (Case 2 then Case 3)
fixInsertLeftBlack(t, n, g) ==
    IF n = t.right[t.parent[n]]
    THEN [n |-> t.parent[n],
          t |-> fixInsertCase3Left(rotateLeft(Mark(t, "fi_left_case2"), t.parent[n]),
                                   t.parent[n], g)]
    ELSE [n |-> n, t |-> fixInsertCase3Left(t, n, g)]

\* uncle black, parent is the right child of g (Case 2 then Case 3)
fixInsertRightBlack(t, n, g) ==
    IF n = t.left[t.parent[n]]
    THEN [n |-> t.parent[n],
          t |-> fixInsertCase3Right(rotateRight(Mark(t, "fi_right_case2"), t.parent[n]),
                                    t.parent[n], g)]
    ELSE [n |-> n, t |-> fixInsertCase3Right(t, n, g)]

\* Case 1: uncle u is red
fixInsertCase1(t, n, g, u, lbl) ==
    Mark(setColor(setColor(setColor(t, t.parent[n], Black), u, Black), g, Red), lbl)

RECURSIVE fixInsertLoop(_, _)
fixInsertAgain(r) == fixInsertLoop(r.t, r.n)

fixInsertLoop(t, n) ==
    IF t.panic THEN t
    ELSE IF ~(n # t.root /\ isRed(t, t.parent[n])) THEN t
    ELSE
    LET g == getGrandParent(t, n) IN
    IF g = Nil THEN Mark(t, "fi_no_grandparent")
    ELSE IF t.parent[n] = t.left[g] THEN
        IF isRed(t, t.right[g])
        THEN fixInsertLoop(fixInsertCase1(t, n, g, t.right[g], "fi_left_case1"), g)
        ELSE fixInsertAgain(fixInsertLeftBlack(t, n, g))
    ELSE
        IF isRed(t, t.left[g])
        THEN fixInsertLoop(fixInsertCase1(t, n, g, t.left[g], "fi_right_case1"), g)
        ELSE fixInsertAgain(fixInsertRightBlack(t, n, g))

\* "if t.root != nil { t.root.color = Black }"
blackenRoot(t) == IF t.panic THEN t ELSE setColorIf(t, t.root, Black)

fixInsert(t, n) == blackenRoot(fixInsertLoop(t, n))

\* ------------------------------------------------------------- insertBST
linkLeft(sub, r) == [t |-> setParent(setLeft(sub.t, r, sub.ret), sub.ret, r), ret |-> r]
linkRight(sub, r) == [t |-> setParent(setRight(sub.t, r, sub.ret), sub.ret, r), ret |-> r]

\* variant: an existing key keeps its old value
RECURSIVE insertBST_keepValue(_, _, _)
insertBST_keepValue(t, r, node) ==
    IF r = Nil THEN [t |-> t, ret |-> node]
    ELSE IF t.key[node] < t.key[r]
    THEN linkLeft(insertBST_keepValue(t, t.left[r], node), r)
    ELSE IF t.key[node] > t.key[r]
    THEN linkRight(insertBST_keepValue(t, t.right[r], node), r)
    ELSE [t |-> Mark([t EXCEPT !.size = @ - 1], "insert_update"), ret |-> r]

\* variant: the update of an existing key does not take back Put's size++
RECURSIVE insertBST_noAdjust(_, _, _)
insertBST_noAdjust(t, r, node) ==
    IF r = Nil THEN [t |-> t, ret |-> node]
    ELSE IF t.key[node] < t.key[r]
    THEN linkLeft(insertBST_noAdjust(t, t.left[r], node), r)
    ELSE IF t.key[node] > t.key[r]
    THEN linkRight(insertBST_noAdjust(t, t.right[r], node), r)
    ELSE [t |-> Mark([t EXCEPT !.value[r] = t.value[node]], "insert_update"),
          ret |-> r]

RECURSIVE insertBST(_, _, _)
insertBST(t, r, node) ==
    IF r = Nil THEN [t |-> t, ret |-> node]
    ELSE IF t.key[node] < t.key[r]
    THEN linkLeft(insertBST(t, t.left[r], node), r)
    ELSE IF t.key[node] > t.key[r]
    THEN linkRight(insertBST(t, t.right[r], node), r)
    ELSE [t |-> Mark([t EXCEPT !.value[r] = t.value[node], !.size = @ - 1],
                     "insert_update"),
          ret |-> r]

\* ------------------------------------------------------------------- Put
\* newNode := &Node{key: k, value: v, color: Red}
build(t, n, k, v) ==
    [t EXCEPT !.key[n] = k, !.value[n] = v, !.color[n] = Red,
              !.left[n] = Nil, !.right[n] = Nil, !.parent[n] = Nil]

\* t.root = t.insertBST(t.root, newNode)
setRoot(ins) == [ins.t EXCEPT !.root = ins.ret]

\* t.size++
count(t) == IF t.panic THEN t ELSE [t EXCEPT !.size = @ + 1]

\* a node nothing links to is garbage
reclaim(t, n) == IF Live(t, n) THEN t ELSE Collect(t, n)

\* variant: the size++ is left out
Put_noCount(t, k, v) ==
    LET newNode == Alloc(t, k) IN
    reclaim(fixInsert(setRoot(insertBST(build(t, newNode, k, v), t.root, newNode)),
                      newNode),
            newNode)

Put(t, k, v) ==
    LET newNode == Alloc(t, k) IN
    reclaim(count(fixInsert(setRoot(insertBST(build(t, newNode, k, v), t.root, newNode)),
                            newNode)),
            newNode)

\* ------------------------------------------------------------------- Get
RECURSIVE getFrom(_, _, _)
getFrom(t, current, k) ==
    IF current = Nil THEN [value |-> ZeroV, found |-> FALSE]
    ELSE IF k = t.key[current] THEN [value |-> t.value[current], found |-> TRUE]
    ELSE IF k < t.key[current] THEN getFrom(t, t.left[current], k)
    ELSE getFrom(t, t.right[current], k)

Get(t, k) == getFrom(t, t.root, k)

\* ------------------------------------------------------ deletion helpers
\* variant: v takes the place of u but keeps its old parent pointer
transplant_keepParent(t, u, v) == replaceChild(t, t.parent[u], u, v)

transplant(t, u, v) ==
    setParentIf(replaceChild(t, t.parent[u], u, v), v, t.parent[u])

\* variant: the descent to the leftmost node is left out
minimum_noDescend(t, n) == n

RECURSIVE minimum(_, _)
minimum(t, n) ==
    IF n = Nil THEN Nil
    ELSE IF t.left[n] # Nil THEN minimum(t, t.left[n]) ELSE n

\* variant: a miss returns the last node visited instead of nil
RECURSIVE findFrom_nearest(_, _, _)
findFrom_nearest(t, cur, k) ==
    IF cur = Nil THEN Nil
    ELSE IF k = t.key[cur] THEN cur
    ELSE IF k < t.key[cur]
    THEN IF t.left[cur] = Nil THEN cur ELSE findFrom_nearest(t, t.left[cur], k)
    ELSE IF t.right[cur] = Nil THEN cur ELSE findFrom_nearest(t, t.right[cur], k)

RECURSIVE findFrom(_, _, _)
findFrom(t, cur, k) ==
    IF cur = Nil THEN Nil
    ELSE IF k = t.key[cur] THEN cur
    ELSE IF k < t.key[cur] THEN findFrom(t, t.left[cur], k)
    ELSE findFrom(t, t.right[cur], k)

findNode(t, k) == findFrom(t, t.root, k)

\* ------------------------------------------------------------- fixDelete
\* one iteration of the loop yields the state, the new x and its parent
fixDeleteStay(t, x, p) == [t |-> t, x |-> x, parent |-> p]

\* "x = t.root; parent = nil"
fixDeleteDone(t) == [t |-> t, x |-> t.root, parent |-> Nil]

\* x is the left child -- Case 4 with sib = parent.right
fixDeleteLeft4(t, x, p) ==
    IF t.panic THEN fixDeleteStay(t, x, p)
    ELSE LET sib == t.right[p] IN
         fixDeleteDone(
           rotateLeft(
             Mark(setColor(IF sib # Nil
                           THEN setColorIf(setColor(t, sib, t.color[p]),
                                           t.right[sib], Black)
                           ELSE t,
                           p, Black),
                  "fd_left_case4"),
             p))

\* variant: Case 2 recolours the sibling and leaves x and parent as they are
fixDeleteLeft2_stay(t, x, p) ==
    IF t.panic THEN fixDeleteStay(t, x, p)
    ELSE LET sib == t.right[p] IN
         IF sib = Nil \/ (~isRed(t, t.left[sib]) /\ ~isRed(t, t.right[sib]))
         THEN [t |-> Mark(setColorIf(t, sib, Red), "fd_left_case2"),
               x |-> x, parent |-> p]
         ELSE IF ~isRed(t, t.right[sib])
         THEN fixDeleteLeft4(
                rotateRight(Mark(setColor(setColorIf(t, t.left[sib], Black), sib, Red),
                                 "fd_left_case3"), sib),
                x, p)
         ELSE fixDeleteLeft4(t, x, p)

\* x is the left child -- Cases 2 to 4 with sib = parent.right
fixDeleteLeft2(t, x, p) ==
    IF t.panic THEN fixDeleteStay(t, x, p)
    ELSE LET sib == t.right[p] IN
         IF sib = Nil \/ (~isRed(t, t.left[sib]) /\ ~isRed(t, t.right[sib]))
         THEN [t |-> Mark(setColorIf(t, sib, Red), "fd_left_case2"),
               x |-> p, parent |-> t.parent[p]]
         ELSE IF ~isRed(t, t.right[sib])
         THEN fixDeleteLeft4(
                rotateRight(Mark(setColor(setColorIf(t, t.left[sib], Black), sib, Red),
                                 "fd_left_case3"), sib),
                x, p)
         ELSE fixDeleteLeft4(t, x, p)

\* one loop iteration with x the left child of p
fixDeleteLeft(t, x, p) ==
    IF isRed(t, t.right[p])
    THEN fixDeleteLeft2(
           rotateLeft(Mark(setColor(setColor(t, t.right[p], Black), p, Red),
                           "fd_left_case1"), p),
           x, p)
    ELSE fixDeleteLeft2(t, x, p)

\* x is the right child -- Case 4 with sib = parent.left
fixDeleteRight4(t, x, p) ==
    IF t.panic THEN fixDeleteStay(t, x, p)
    ELSE LET sib == t.left[p] IN
         fixDeleteDone(
           rotateRight(
             Mark(setColor(IF sib # Nil
                           THEN setColorIf(setColor(t, sib, t.color[p]),
                                           t.left[sib], Black)
                           ELSE t,
                           p, Black),
                  "fd_right_case4"),
             p))

\* x is the right child -- Cases 2 to 4 with sib = parent.left
fixDeleteRight2(t, x, p) ==
    IF t.panic THEN fixDeleteStay(t, x, p)
    ELSE LET sib == t.left[p] IN
         IF sib = Nil \/ (~isRed(t, t.left[sib]) /\ ~isRed(t, t.right[sib]))
         THEN [t |-> Mark(setColorIf(t, sib, Red), "fd_right_case2"),
               x |-> p, parent |-> t.parent[p]]
         ELSE IF ~isRed(t, t.left[sib])
         THEN fixDeleteRight4(
                rotateLeft(Mark(setColor(setColorIf(t, t.right[sib], Black), sib, Red),
                                "fd_right_case3"), sib),
                x, p)
         ELSE fixDeleteRight4(t, x, p)

\* one loop iteration with x the right child of p
fixDeleteRight(t, x, p) ==
    IF isRed(t, t.left[p])
    THEN fixDeleteRight2(
           rotateRight(Mark(setColor(setColor(t, t.left[p], Black), p, Red),
                            "fd_right_case1"), p),
           x, p)
    ELSE fixDeleteRight2(t, x, p)

RECURSIVE fixDeleteLoop(_, _, _)
fixDeleteAgain(r) == fixDeleteLoop(r.t, r.x, r.parent)

fixDeleteLoop(t, x, p) ==
    IF t.panic THEN fixDeleteStay(t, x, p)
    ELSE IF ~((x # t.root) /\ (x = Nil \/ ~isRed(t, x))) THEN fixDeleteStay(t, x, p)
    ELSE IF p = Nil THEN fixDeleteStay(Mark(t, "fd_no_parent"), x, p)
    ELSE IF x = t.left[p] THEN fixDeleteAgain(fixDeleteLeft(t, x, p))
    ELSE fixDeleteAgain(fixDeleteRight(t, x, p))

\* "if x != nil { x.color = Black }"
fixDeleteEnd(r) == IF r.t.panic THEN r.t ELSE setColorIf(r.t, r.x, Black)

\* variant: the final "x.color = Black" is left out
fixDelete_keepColor(t, x, p) ==
    fixDeleteLoop(Mark(t, IF x = Nil THEN "fd_nil" ELSE "fd_node"), x, p).t

fixDelete(t, x, p) ==
    fixDeleteEnd(fixDeleteLoop(Mark(t, IF x = Nil THEN "fd_nil" ELSE "fd_node"), x, p))

\* ---------------------------------------------------------------- Remove
\* the successor y takes the place of z: "t.transplant(z, y)" to "y.color = z.color"
replaceBySuccessor(t, z, y) ==
    setColor(setParentIf(setLeft(transplant(t, z, y), y, t.left[z]), t.left[z], y),
             y, t.color[z])

\* z has two children: its in-order successor y is unlinked and takes its place
removeTwoChildren(t, z) ==
    LET y == minimum(t, t.right[z]) IN
    IF t.parent[y] = z
    THEN [t |-> replaceBySuccessor(
                  Mark(setParentIf(t, t.right[y], y), "rm_succ_direct"), z, y),
          originalColor |-> t.color[y], x |-> t.right[y], xParent |-> y]
    ELSE [t |-> replaceBySuccessor(
                  Mark(setParentIf(setRight(transplant(t, y, t.right[y]), y, t.right[z]),
                                   t.right[z], y),
                       "rm_succ_deep"), z, y),
          originalColor |-> t.color[y], x |-> t.right[y], xParent |-> t.parent[y]]

\* the node z leaves the tree; x takes the place of the node physically removed
unlink(t, z) ==
    IF t.left[z] = Nil
    THEN [t |-> Mark(transplant(t, z, t.right[z]), "rm_no_left"),
          originalColor |-> t.color[z], x |-> t.right[z], xParent |-> t.parent[z]]
    ELSE IF t.right[z] = Nil
    THEN [t |-> Mark(transplant(t, z, t.left[z]), "rm_no_right"),
          originalColor |-> t.color[z], x |-> t.left[z], xParent |-> t.parent[z]]
    ELSE removeTwoChildren(t, z)

\* "if originalColor == Black { t.fixDelete(x, xParent) }"
rebalance(u) ==
    IF u.originalColor = Black THEN fixDelete(u.t, u.x, u.xParent) ELSE u.t

\* "t.size--"; z is garbage from here on
uncount(t, z) == IF t.panic THEN t ELSE Collect([t EXCEPT !.size = @ - 1], z)

Remove(t, k) ==
    LET z == findNode(t, k) IN
    IF z = Nil THEN [t |-> Mark(t, "rm_absent"), value |-> ZeroV, found |-> FALSE]
    ELSE [t |-> uncount(rebalance(unlink(t, z)), z),
          value |-> t.value[z], found |-> TRUE]

\* ------------------------------------------------------------ navigation
\* the loops "for n.left != nil" and "for n.right != nil"
RECURSIVE leftmost(_, _)
leftmost(t, n) == IF t.left[n] # Nil THEN leftmost(t, t.left[n]) ELSE n

\* variant: the descent to the rightmost node is left out
rightmost_stop(t, n) == n

RECURSIVE rightmost(_, _)
rightmost(t, n) == IF t.right[n] # Nil THEN rightmost(t, t.right[n]) ELSE n

FirstKey(t) ==
    IF t.root = Nil THEN [key |-> ZeroK, found |-> FALSE]
    ELSE [key |-> t.key[leftmost(t, t.root)], found |-> TRUE]

LastKey(t) ==
    IF t.root = Nil THEN [key |-> ZeroK, found |-> FALSE]
    ELSE [key |-> t.key[rightmost(t, t.root)], found |-> TRUE]

\* variant: the first candidate found is never replaced by a closer one
RECURSIVE ceilingFrom_firstCandidate(_, _, _, _)
ceilingFrom_firstCandidate(t, cur, candidate, k) ==
    IF cur = Nil
    THEN IF candidate = Nil THEN [key |-> ZeroK, found |-> FALSE]
         ELSE [key |-> t.key[candidate], found |-> TRUE]
    ELSE IF k = t.key[cur] THEN [key |-> t.key[cur], found |-> TRUE]
    ELSE IF k < t.key[cur]
    THEN ceilingFrom_firstCandidate(t, t.left[cur],
                                    IF candidate = Nil THEN cur ELSE candidate, k)
    ELSE ceilingFrom_firstCandidate(t, t.right[cur], candidate, k)

RECURSIVE ceilingFrom(_, _, _, _)
ceilingFrom(t, cur, candidate, k) ==
    IF cur = Nil
    THEN IF candidate = Nil THEN [key |-> ZeroK, found |-> FALSE]
         ELSE [key |-> t.key[candidate], found |-> TRUE]
    ELSE IF k = t.key[cur] THEN [key |-> t.key[cur], found |-> TRUE]
    ELSE IF k < t.key[cur] THEN ceilingFrom(t, t.left[cur], cur, k)
    ELSE ceilingFrom(t, t.right[cur], candidate, k)

CeilingKey(t, k) == ceilingFrom(t, t.root, Nil, k)

RECURSIVE floorFrom(_, _, _, _)
floorFrom(t, cur, candidate, k) ==
    IF cur = Nil
    THEN IF candidate = Nil THEN [key |-> ZeroK, found |-> FALSE]
         ELSE [key |-> t.key[candidate], found |-> TRUE]
    ELSE IF k = t.key[cur] THEN [key |-> t.key[cur], found |-> TRUE]
    ELSE IF k < t.key[cur] THEN floorFrom(t, t.left[cur], candidate, k)
    ELSE floorFrom(t, t.right[cur], cur, k)

FloorKey(t, k) == floorFrom(t, t.root, Nil, k)

ContainsKey(t, k) == Get(t, k).found

Size(t) == t.size

Min(t) ==
    IF t.root = Nil THEN [key |-> ZeroK, value |-> ZeroV]
    ELSE LET current == leftmost(t, t.root)
         IN  [key |-> t.key[current], value |-> t.value[current]]

Max(t) ==
    IF t.root = Nil THEN [key |-> ZeroK, value |-> ZeroV]
    ELSE LET current == rightmost(t, t.root)
         IN  [key |-> t.key[current], value |-> t.value[current]]

RECURSIVE inorder(_, _)
inorder(t, n) ==
    IF n = Nil THEN <<>>
    ELSE inorder(t, t.left[n]) \o <<t.key[n]>> \o inorder(t, t.right[n])

Keys(t) == inorder(t, t.root)

\* ============================================================= BinaryHeap
\* Person{Name, Lived} of the tests; a name is its sequence of characters
Names == {<<>>, <<"K">>}
Persons == [name : Names, lived : 0..MaxLived]
Ints == 0..MaxElem

\* variant: the natural order is ascending
cmp_ascending(c, a, b) ==
    CASE c = "natural" -> a < b
      [] c = "lived" -> a.lived > b.lived
      [] c = "livedName" -> IF a.lived # b.lived THEN a.lived > b.lived
                            ELSE Len(a.name) > Len(b.name)

\* the comparators the heap is built with
cmp(c, a, b) ==
    CASE c = "natural" -> a > b
      [] c = "lived" -> a.lived > b.lived
      [] c = "livedName" -> IF a.lived # b.lived THEN a.lived > b.lived
                            ELSE Len(a.name) > Len(b.name)

Comparators == {"natural", "lived", "livedName"}
Elems(c) == IF c = "natural" THEN Ints ELSE Persons
Zero(c) == IF c = "natural" THEN 0 ELSE [name |-> <<>>, lived |-> 0]

NewBinaryHeap == [data |-> <<>>, cmp |-> "natural"]
NewBinaryHeapWithComparator(c) == [data |-> <<>>, cmp |-> c]

\* data[i] of the Go slice
At(data, i) == data[i + 1]

\* variant: data[i] is overwritten and data[j] keeps its element
swap_overwrite(data, i, j) == [data EXCEPT ![i + 1] = data[j + 1]]

swap(data, i, j) == [data EXCEPT ![i + 1] = data[j + 1], ![j + 1] = data[i + 1]]

RECURSIVE swim(_, _, _)
swim(data, c, k) ==
    IF k > 0
    THEN LET parent == (k - 1) \div 2 IN
         IF cmp(c, At(data, k), At(data, parent))
         THEN swim(swap(data, k, parent), c, parent)
         ELSE data
    ELSE data

Add(h, val) ==
    LET data == Append(h.data, val)
        idxOfLastElem == Len(data) - 1
    IN  [h EXCEPT !.data = swim(data, h.cmp, idxOfLastElem)]

\* variant: the right child is never preferred
pickChild_left(data, c, child) == child

\* the child with the higher priority of the two
pickChild(data, c, child) ==
    IF child + 1 < Len(data) /\ cmp(c, At(data, child + 1), At(data, child))
    THEN child + 1 ELSE child

RECURSIVE sink(_, _, _, _)
sink(data, c, parent, child) ==
    IF child < Len(data)
    THEN LET ch == pickChild(data, c, child) IN
         IF cmp(c, At(data, ch), At(data, parent))
         THEN sink(swap(data, ch, parent), c, ch, 2 * ch + 1)
         ELSE data
    ELSE data

\* variant: the element moved to the root is not sunk
removeAt_noSink(h, k) ==
    LET size == Len(h.data) IN
    IF size = 0 THEN [h |-> h, value |-> Zero(h.cmp), err |-> TRUE]
    ELSE LET removed == At(h.data, k)
             last == At(h.data, size - 1)
             d1 == [h.data EXCEPT ![k + 1] = last]
         IN  [h |-> [h EXCEPT !.data = SubSeq(d1, 1, size - 1)],
              value |-> removed, err |-> FALSE]

removeAt(h, k) ==
    LET size == Len(h.data) IN
    IF size = 0 THEN [h |-> h, value |-> Zero(h.cmp), err |-> TRUE]
    ELSE LET removed == At(h.data, k)
             last == At(h.data, size - 1)
             d1 == [h.data EXCEPT ![k + 1] = last]
             d2 == SubSeq(d1, 1, size - 1)
         IN  [h |-> [h EXCEPT !.data = sink(d2, h.cmp, k, 2 * k + 1)],
              value |-> removed, err |-> FALSE]

Poll(h) ==
    IF Len(h.data) = 0 THEN [h |-> h, value |-> Zero(h.cmp), err |-> TRUE]
    ELSE removeAt(h, 0)

\* variant: the slice is left as it is
Clear_keep(h) == h

\* "bh.data = nil": a nil slice has length 0 and can be appended to
Clear(h) == [h EXCEPT !.data = <<>>]

HeapSize(h) == Len(h.data)

\* "return bh.Size() == 0"
IsEmpty(h) == HeapSize(h) = 0

\* variant: an empty heap yields the zero value and no error
Peek_noError(h) ==
    IF Len(h.data) = 0 THEN [value |-> Zero(h.cmp), err |-> FALSE]
    ELSE [value |-> At(h.data, 0), err |-> FALSE]

Peek(h) ==
    IF Len(h.data) = 0 THEN [value |-> Zero(h.cmp), err |-> TRUE]
    ELSE [value |-> At(h.data, 0), err |-> FALSE]

\* "for i := 0; i < size; i++ { v, _ := tempHeap.Poll(); result = append(result, v) }"
RECURSIVE sortLoop(_, _, _, _)
sortNext(r, result, i, size) == sortLoop(r.h, Append(result, r.value), i + 1, size)

sortLoop(tempHeap, result, i, size) ==
    IF i < size THEN sortNext(Poll(tempHeap), result, i, size)
    ELSE [h |-> tempHeap, result |-> result]

\* "copy(copyHeap, bh.data)" into a fresh slice of length size
copyOf(data, size) == [i \in 1..size |-> data[i]]

\* variant: the elements are polled from the heap itself, not from a copy
Sort_inPlace(h) ==
    LET out == sortLoop(h, <<>>, 0, Len(h.data))
    IN  [h |-> out.h, result |-> out.result]

\* variant: the copy is returned as it is, nothing is polled
Sort_heapOrder(h) == [h |-> h, result |-> copyOf(h.data, Len(h.data))]

\* the heap after the call (bh is only read) and the slice returned
Sort(h) ==
    LET size == Len(h.data)
        tempHeap == [data |-> copyOf(h.data, size), cmp |-> h.cmp]
    IN  [h |-> h, result |-> sortLoop(tempHeap, <<>>, 0, size).result]

\* ================================================================= Stack
\* src/stack/stack.go; a slice is a sequence, the nil slice is <<>>, and
\* data[i] of the code is data[i + 1] here
StackCap == 16
ZeroT == 0
TVals == {1, 2}

make(n) == [i \in 1..n |-> ZeroT]

copy(dst, src) ==
    [i \in 1..Len(dst) |-> IF i <= Len(src) THEN src[i] ELSE dst[i]]

\* every call yields the stack it leaves, what it returns, and whether it
\* panicked (index out of range)
StackResult(s, value, ok, err, pnc) ==
    [s |-> s, value |-> value, ok |-> ok, err |-> err, panic |-> pnc]

NewStack == [cap |-> StackCap, top |-> -1, data |-> make(StackCap)]

\* increaseSize without "copy(newData, s.data)"
Stack_increaseSize_noCopy(s) ==
    [s EXCEPT !.cap = s.cap * 2, !.data = make(s.cap * 2)]

Stack_increaseSize(s) ==
    [s EXCEPT !.cap = s.cap * 2, !.data = copy(make(s.cap * 2), s.data)]

\* if s.top == s.cap-1 { s.increaseSize() }
Stack_grow(s) == IF s.top = s.cap - 1 THEN Stack_increaseSize(s) ELSE s

\* s.top++; s.data[s.top] = val; return true, nil
Stack_store(s, val) ==
    IF s.top + 1 >= Len(s.data)
    THEN StackResult([s EXCEPT !.top = s.top + 1], ZeroT, FALSE, FALSE, TRUE)
    ELSE StackResult([s EXCEPT !.top = s.top + 1, !.data[s.top + 2] = val],
                     ZeroT, TRUE, FALSE, FALSE)

Stack_Push(s, val) == Stack_store(Stack_grow(s), val)

Stack_IsEmpty(s) == s.top = -1

Stack_IsFull(s) == s.top = s.cap - 1

Stack_Size(s) == s.top + 1

\* s.data[i] for an index the caller computed
Stack_index(s, i) ==
    IF i < 0 \/ i >= Len(s.data)
    THEN StackResult(s, ZeroT, FALSE, FALSE, TRUE)
    ELSE StackResult(s, s.data[i + 1], FALSE, FALSE, FALSE)

Stack_Pop(s) ==
    IF s.top = -1
    THEN StackResult(s, ZeroT, FALSE, TRUE, FALSE)
    ELSE IF Stack_index(s, s.top).panic
         THEN Stack_index(s, s.top)
         ELSE StackResult([s EXCEPT !.top = s.top - 1],
                          s.data[s.top + 1], FALSE, FALSE, FALSE)

Stack_Peek(s) ==
    IF Stack_IsEmpty(s)
    THEN StackResult(s, ZeroT, FALSE, TRUE, FALSE)
    ELSE Stack_index(s, s.top)

Stack_ValueAt(s, pos) ==
    IF s.top = -1
    THEN StackResult(s, ZeroT, FALSE, TRUE, FALSE)
    ELSE IF pos < 0 \/ pos >= s.top + 1
         THEN StackResult(s, ZeroT, FALSE, TRUE, FALSE)
         ELSE Stack_index(s, s.top - pos)

Stack_Clear(s) == [s EXCEPT !.top = -1, !.data = <<>>]

\* ================================================================= Queue
\* src/queue/queue.go
QueueCap == 16

NewQueue ==
    [cap |-> QueueCap, front |-> 0, rear |-> 0, count |-> 0,
     data |-> make(QueueCap)]

QueueResult(q, value, err) == [q |-> q, value |-> value, err |-> err]

\* the copy loop without the offset front: newData[i] = q.data[i]
Queue_rearrange_noFront(q, newData) == copy(newData, q.data)

\* newData[i] = q.data[(q.front+i)%q.cap] for i < q.count
Queue_rearrange(q, newData) ==
    [i \in 1..Len(newData) |->
        IF i - 1 < q.count
        THEN q.data[((q.front + i - 1) % q.cap) + 1]
        ELSE newData[i]]

Queue_increaseSize(q) ==
    [q EXCEPT !.data = Queue_rearrange(q, make(q.cap * 2)),
              !.front = 0,
              !.rear = q.count,
              !.cap = q.cap * 2]

\* if q.count == q.cap { q.increaseSize() }
Queue_grow(q) == IF q.count = q.cap THEN Queue_increaseSize(q) ELSE q

\* q.data[q.rear%q.cap] = val; q.rear++; q.count++
Queue_store(q, val) ==
    [q EXCEPT !.data[(q.rear % q.cap) + 1] = val,
              !.rear = q.rear + 1,
              !.count = q.count + 1]

Queue_Enqueue(q, val) == Queue_store(Queue_grow(q), val)

Queue_Dequeue(q) ==
    IF q.count = 0
    THEN QueueResult(q, ZeroT, TRUE)
    ELSE QueueResult([q EXCEPT !.data[(q.front % q.cap) + 1] = ZeroT,
                               !.front = q.front + 1,
                               !.count = q.count - 1],
                     q.data[(q.front % q.cap) + 1], FALSE)

Queue_Peek(q) ==
    IF q.count = 0
    THEN QueueResult(q, ZeroT, TRUE)
    ELSE QueueResult(q, q.data[(q.front % q.cap) + 1], FALSE)

Queue_IsFull(q) == q.count = q.cap

Queue_IsEmpty(q) == q.count = 0

Queue_Size(q) == q.count

Queue_Clear(q) ==
    [q EXCEPT !.front = 0, !.rear = 0, !.count = 0, !.cap = QueueCap]

\* for r := q.front; r <= q.rear-1; r++ { result = append(result, q.data[r%q.cap]) }
Queue_ToArray(q) ==
    [i \in 1..(IF q.rear > q.front THEN q.rear - q.front ELSE 0) |->
        q.data[((q.front + i - 1) % q.cap) + 1]]

\* snapshot := make([]T, q.Size()); copy(snapshot, q.data)
Queue_Iterator(q) ==
    [idx |-> 0, data |-> copy(make(Queue_Size(q)), q.data)]

Iterator_Next(it) ==
    IF it.idx >= Len(it.data)
    THEN [it |-> it, value |-> ZeroT, ok |-> FALSE]
    ELSE [it |-> [it EXCEPT !.idx = it.idx + 1],
          value |-> it.data[it.idx + 1], ok |-> TRUE]

\* the values of successive Next calls up to the first (zero, false)
RECURSIVE Iterator_drain(_)
Iterator_drain(it) ==
    IF Iterator_Next(it).ok
    THEN <<Iterator_Next(it).value>> \o Iterator_drain(Iterator_Next(it).it)
    ELSE <<>>

\* ====================================================== DoublyLinkedList
\* src/linkedlist/linked_list.go; every *ListNode is an id in ListIds and the
\* fields val, next, prev are tables indexed by id
ListIds == 1..(MaxList + 2)
NoErr == ""

NewLinkedList ==
    [size |-> 0, head |-> Nil, tail |-> Nil,
     val  |-> [n \in ListIds |-> ZeroT],
     next |-> [n \in ListIds |-> Nil],
     prev |-> [n \in ListIds |-> Nil]]

ListResult(l, value, ok, err, pnc) ==
    [l |-> l, value |-> value, ok |-> ok, err |-> err, panic |-> pnc]

\* a nil pointer is dereferenced: the call panics
ListPanic(l) == ListResult(l, ZeroT, FALSE, NoErr, TRUE)

\* the nodes met from n along the table f, at most k of them
RECURSIVE List_chain(_, _, _)
List_chain(f, n, k) ==
    IF n = Nil \/ k = 0 THEN <<>> ELSE <<n>> \o List_chain(f, f[n], k - 1)

List_forward(l) == List_chain(l.next, l.head, Cardinality(ListIds))

List_backward(l) == List_chain(l.prev, l.tail, Cardinality(ListIds))

\* the nodes the list still leads to
Nodes(seq) == {seq[i] : i \in 1..Len(seq)}

List_reach(l) == Nodes(List_forward(l)) \cup Nodes(List_backward(l))

\* the lowest address not in use
Lowest(free) == CHOOSE n \in free : \A o \in free : n <= o

\* address of a freshly built node: none of the nodes in use
List_fresh(l, held) == Lowest(ListIds \ (List_reach(l) \cup held))

\* the nodes outside keep are reclaimed
List_sweep(l, keep) ==
    [l EXCEPT
        !.val  = [n \in ListIds |-> IF n \in keep THEN l.val[n] ELSE ZeroT],
        !.next = [n \in ListIds |-> IF n \in keep THEN l.next[n] ELSE Nil],
        !.prev = [n \in ListIds |-> IF n \in keep THEN l.prev[n] ELSE Nil]]

\* nodes neither linked nor held are reclaimed by the garbage collector
List_collect(l, held) == List_sweep(l, List_reach(l) \cup held)

NewListNode(l, n, val, prev, next) ==
    [l EXCEPT !.val[n] = val, !.prev[n] = prev, !.next[n] = next]

\* AddLast with the new node built at address n
List_addLastAt(l, elem, n) ==
    IF l.size = 0
    THEN ListResult([NewListNode(l, n, elem, Nil, Nil)
                        EXCEPT !.head = n, !.tail = n, !.size = l.size + 1],
                    ZeroT, TRUE, NoErr, FALSE)
    ELSE IF l.tail = Nil THEN ListPanic(l)
    ELSE ListResult([NewListNode(l, n, elem, l.tail, Nil)
                        EXCEPT !.next[l.tail] = n, !.tail = n,
                               !.size = l.size + 1],
                    ZeroT, TRUE, NoErr, FALSE)

List_AddLast(l, elem) == List_addLastAt(l, elem, List_fresh(l, {}))

List_Add(l, elem) == List_AddLast(l, elem)

\* AddFirst with the new node built at address n
List_addFirstAt(l, elem, n) ==
    IF l.size = 0
    THEN ListResult([NewListNode(l, n, elem, Nil, Nil)
                        EXCEPT !.head = n, !.tail = n, !.size = l.size + 1],
                    ZeroT, TRUE, NoErr, FALSE)
    ELSE IF l.head = Nil THEN ListPanic(l)
    ELSE ListResult([NewListNode(l, n, elem, Nil, l.head)
                        EXCEPT !.prev[l.head] = n, !.head = n,
                               !.size = l.size + 1],
                    ZeroT, TRUE, NoErr, FALSE)

List_AddFirst(l, elem) == List_addFirstAt(l, elem, List_fresh(l, {}))

\* "temp = temp.next" i times from n; -1 when a nil pointer is dereferenced
RECURSIVE List_step(_, _, _)
List_step(f, n, i) ==
    IF i <= 0 THEN n
    ELSE IF n = Nil THEN -1
    ELSE List_step(f, f[n], i - 1)

\* AddAt's linking without "node.next.prev = node"
List_insertAfter_noBackLink(l, temp, elem, n) ==
    ListResult([NewListNode(l, n, elem, temp, l.next[temp])
                   EXCEPT !.next[temp] = n, !.size = l.size + 1],
               ZeroT, TRUE, NoErr, FALSE)

\* node := NewListNode(elem, temp, temp.next); temp.next = node;
\* node.next.prev = node; dl.size++
List_insertAfter(l, temp, elem, n) ==
    IF temp = Nil \/ temp = -1 THEN ListPanic(l)
    ELSE IF l.next[temp] = Nil
         THEN ListPanic([NewListNode(l, n, elem, temp, Nil)
                            EXCEPT !.next[temp] = n])
    ELSE ListResult([NewListNode(l, n, elem, temp, l.next[temp])
                        EXCEPT !.next[temp] = n, !.prev[l.next[temp]] = n,
                               !.size = l.size + 1],
                    ZeroT, TRUE, NoErr, FALSE)

List_AddAt(l, idx, elem) ==
    IF idx < 0 \/ idx > l.size
    THEN ListResult(l, ZeroT, FALSE, "invalid index", FALSE)
    ELSE IF idx = 0 THEN List_AddFirst(l, elem)
    ELSE IF idx = l.size THEN List_AddLast(l, elem)
    ELSE List_insertAfter(l, List_step(l.next, l.head, idx - 1), elem,
                          List_fresh(l, {}))

List_PeekFirst(l) ==
    IF l.size = 0
    THEN ListResult(l, ZeroT, FALSE, "linked list empty", FALSE)
    ELSE IF l.head = Nil THEN ListPanic(l)
    ELSE ListResult(l, l.val[l.head], TRUE, NoErr, FALSE)

List_PeekLast(l) ==
    IF l.size = 0
    THEN ListResult(l, ZeroT, FALSE, "linked list empty", FALSE)
    ELSE IF l.tail = Nil THEN ListPanic(l)
    ELSE ListResult(l, l.val[l.tail], TRUE, NoErr, FALSE)

\* if dl.size == 0 { dl.tail = nil } else { dl.head.prev = nil }
List_dropHead(l, value) ==
    IF l.size = 0
    THEN ListResult([l EXCEPT !.tail = Nil], value, TRUE, NoErr, FALSE)
    ELSE IF l.head = Nil THEN ListPanic(l)
    ELSE ListResult([l EXCEPT !.prev[l.head] = Nil], value, TRUE, NoErr, FALSE)

List_RemoveFirst(l) ==
    IF l.size = 0
    THEN ListResult(l, ZeroT, FALSE, "linked list empty", FALSE)
    ELSE IF l.head = Nil THEN ListPanic(l)
    ELSE List_dropHead([l EXCEPT !.head = l.next[l.head],
                                 !.size = l.size - 1],
                       l.val[l.head])

\* if dl.size == 0 { dl.head = nil } else { dl.tail.next = nil }
List_dropTail(l, value) ==
    IF l.size = 0
    THEN ListResult([l EXCEPT !.head = Nil], value, TRUE, NoErr, FALSE)
    ELSE IF l.tail = Nil THEN ListPanic(l)
    ELSE ListResult([l EXCEPT !.next[l.tail] = Nil], value, TRUE, NoErr, FALSE)

List_RemoveLast(l) ==
    IF l.size = 0
    THEN ListResult(l, ZeroT, FALSE, "linked list empty", FALSE)
    ELSE IF l.tail = Nil THEN ListPanic(l)
    ELSE List_dropTail([l EXCEPT !.tail = l.prev[l.tail],
                                 !.size = l.size - 1],
                       l.val[l.tail])

\* a removeNode that leaves the back link of the next node in place
List_removeNode_noPrev(l, node) ==
    IF node = Nil \/ node = -1 THEN ListPanic(l)
    ELSE IF l.prev[node] = Nil THEN List_RemoveFirst(l)
    ELSE IF l.next[node] = Nil THEN List_RemoveLast(l)
    ELSE ListResult([l EXCEPT !.next[l.prev[node]] = l.next[node],
                              !.prev[node] = Nil,
                              !.next[node] = Nil,
                              !.size = l.size - 1],
                    l.val[node], TRUE, NoErr, FALSE)

List_removeNode(l, node) ==
    IF node = Nil \/ node = -1 THEN ListPanic(l)
    ELSE IF l.prev[node] = Nil THEN List_RemoveFirst(l)
    ELSE IF l.next[node] = Nil THEN List_RemoveLast(l)
    ELSE ListResult([l EXCEPT !.prev[l.next[node]] = l.prev[node],
                              !.next[l.prev[node]] = l.next[node],
                              !.prev[node] = Nil,
                              !.next[node] = Nil,
                              !.size = l.size - 1],
                    l.val[node], TRUE, NoErr, FALSE)

\* the first node from n on whose value is elem, Nil when there is none
RECURSIVE List_find(_, _, _, _)
List_find(l, n, elem, k) ==
    IF n = Nil \/ k = 0 THEN Nil
    ELSE IF l.val[n] = elem THEN n
    ELSE List_find(l, l.next[n], elem, k - 1)

List_Remove(l, elem) ==
    IF l.size = 0
    THEN ListResult(l, ZeroT, FALSE, "linked list empty", FALSE)
    ELSE IF List_find(l, l.head, elem, Cardinality(ListIds)) = Nil
         THEN ListResult(l, ZeroT, FALSE, "value not found", FALSE)
    ELSE List_removeNode(l, List_find(l, l.head, elem, Cardinality(ListIds)))

\* the traveler of RemoveAt: from the head in the first half, else from the tail
List_traveler(l, idx) ==
    IF idx < l.size \div 2
    THEN List_step(l.next, l.head, idx)
    ELSE List_step(l.prev, l.tail, l.size - 1 - idx)

List_RemoveAt(l, idx) ==
    IF idx < 0 \/ idx >= l.size
    THEN ListResult(l, ZeroT, FALSE, "invalid index", FALSE)
    ELSE List_removeNode(l, List_traveler(l, idx))

List_Size(l) == l.size

List_IsEmpty(l) == l.size = 0

\* iter.prev = nil; iter.next = nil for the nodes in visited
List_unlink(l, visited) ==
    [l EXCEPT
        !.next = [n \in ListIds |-> IF n \in visited THEN Nil ELSE l.next[n]],
        !.prev = [n \in ListIds |-> IF n \in visited THEN Nil ELSE l.prev[n]],
        !.head = Nil, !.tail = Nil, !.size = 0]

List_Clear(l) == List_unlink(l, Nodes(List_forward(l)))

\* position of the first node from n on whose value is elem, -1 when none
RECURSIVE List_position(_, _, _, _, _)
List_position(l, n, elem, idx, k) ==
    IF n = Nil \/ k = 0 THEN -1
    ELSE IF l.val[n] = elem THEN idx
    ELSE List_position(l, l.next[n], elem, idx + 1, k - 1)

List_indexOf(l, elem) ==
    IF l.size = 0
    THEN ListResult(l, -1, FALSE, "linked list empty", FALSE)
    ELSE IF List_position(l, l.head, elem, 0, Cardinality(ListIds)) = -1
         THEN ListResult(l, -1, FALSE, "element not found in linked list", FALSE)
    ELSE ListResult(l, List_position(l, l.head, elem, 0, Cardinality(ListIds)),
                    TRUE, NoErr, FALSE)

List_Contains(l, elem) ==
    IF List_indexOf(l, elem).err # NoErr
    THEN ListResult(l, ZeroT, FALSE, List_indexOf(l, elem).err, FALSE)
    ELSE ListResult(l, ZeroT, List_indexOf(l, elem).value >= 0, NoErr, FALSE)

\* the values the iterator goroutine sends before it closes the channel
List_Iterate(l) ==
    [i \in 1..Len(List_forward(l)) |-> l.val[List_forward(l)[i]]]

\* ========================================================== UnorderedSet
\* src/unnamed/part_006
NewUnorderedSet == [items |-> {}]

Set_Insert(us, item) == [us EXCEPT !.items = us.items \cup {item}]

Set_Remove(us, item) == [us EXCEPT !.items = us.items \ {item}]

Set_Contain(us, item) == item \in us.items

Set_Size(us) == Cardinality(us.items)

Set_Clear(us) == [us EXCEPT !.items = {}]

\* the snapshot the iterator goroutine takes under RLock
Set_snapshot(us) == us.items


\* ================================================================= Deque
\* src/unnamed/part_011: a Deque is its data field, a DoublyLinkedList
NewDeque == NewLinkedList

Deque_OfferFirst(d, elem) == List_AddFirst(d, elem)

Deque_OfferLast(d, elem) == List_AddLast(d, elem)

Deque_PollFirst(d) == List_RemoveFirst(d)

Deque_PollLast(d) == List_RemoveLast(d)

\* a Remove that reports whether the removed value is not the zero value
Deque_Remove_nonZero(d, elem) ==
    IF List_Remove(d, elem).err # NoErr
    THEN ListResult(List_Remove(d, elem).l, FALSE, FALSE, NoErr,
                    List_Remove(d, elem).panic)
    ELSE ListResult(List_Remove(d, elem).l,
                    List_Remove(d, elem).value # ZeroT, FALSE, NoErr,
                    List_Remove(d, elem).panic)

\* ok, err := d.data.Remove(elem); false on err, else ok == elem
Deque_Remove(d, elem) ==
    IF List_Remove(d, elem).err # NoErr
    THEN ListResult(List_Remove(d, elem).l, FALSE, FALSE, NoErr,
                    List_Remove(d, elem).panic)
    ELSE ListResult(List_Remove(d, elem).l,
                    List_Remove(d, elem).value = elem, FALSE, NoErr,
                    List_Remove(d, elem).panic)

Deque_Size(d) == List_Size(d)

\* ================================================================== Trie
\* src/treemap/treemap.go 559-836 (the mutex-guarded Trie)
\* runes of the words given to the trie
Runes == {1, 2}

RECURSIVE WordsOf(_)
WordsOf(n) ==
    IF n = 0 THEN {<<>>}
    ELSE WordsOf(n - 1) \cup {Append(w, ch) : w \in WordsOf(n - 1), ch \in Runes}

\* the non-empty words, and every string a call may be given
Words == WordsOf(MaxWord) \ {<<>>}

Strings == WordsOf(MaxWord)

Root == <<>>

NewTrieNode == [children |-> {}, isEnd |-> FALSE]

NewTrie == [size |-> 0, node |-> (Root :> NewTrieNode)]

\* current.children[ch], the node it names when it is not nil
Trie_child(current, ch) == Append(current, ch)

Trie_hasChild(t, current, ch) == ch \in t.node[current].children

\* current.children[ch] = NewTrieNode()
Trie_newChild(t, current, ch) ==
    [t EXCEPT !.node = [@ EXCEPT ![current].children = @ \cup {ch}]
                       @@ (Trie_child(current, ch) :> NewTrieNode)]

\* delete(parent.children, ch): the child node is no longer referenced
Trie_delete(t, parent, ch) ==
    [t EXCEPT !.node =
        [p \in {q \in DOMAIN t.node :
                  ~(Len(q) > Len(parent)
                    /\ SubSeq(q, 1, Len(parent) + 1) = Append(parent, ch))}
           |-> IF p = parent
               THEN [t.node[p] EXCEPT !.children = @ \ {ch}]
               ELSE t.node[p]]]

\* the loop of Insert from the i-th rune of word on
RECURSIVE Trie_insertLoop(_, _, _, _)
Trie_insertLoop(t, current, word, i) ==
    IF i > Len(word) THEN [t |-> t, current |-> current]
    ELSE IF ~Trie_hasChild(t, current, word[i])
         THEN Trie_insertLoop(Trie_newChild(t, current, word[i]),
                              Trie_child(current, word[i]), word, i + 1)
         ELSE Trie_insertLoop(t, Trie_child(current, word[i]), word, i + 1)

Trie_markEnd(t, current) ==
    IF ~t.node[current].isEnd
    THEN [t EXCEPT !.node[current].isEnd = TRUE, !.size = t.size + 1]
    ELSE t

Trie_Insert(t, word) ==
    IF Len(word) = 0 THEN t
    ELSE Trie_markEnd(Trie_insertLoop(t, Root, word, 1).t,
                      Trie_insertLoop(t, Root, word, 1).current)

\* the loop of Search and StartsWith: the node word leads to, if there is one
RECURSIVE Trie_follow(_, _, _, _)
Trie_follow(t, current, word, i) ==
    IF i > Len(word) THEN [found |-> TRUE, current |-> current]
    ELSE IF ~Trie_hasChild(t, current, word[i])
         THEN [found |-> FALSE, current |-> current]
         ELSE Trie_follow(t, Trie_child(current, word[i]), word, i + 1)

Trie_Search(t, word) ==
    IF Len(word) = 0 THEN FALSE
    ELSE IF ~Trie_follow(t, Root, word, 1).found THEN FALSE
    ELSE t.node[Trie_follow(t, Root, word, 1).current].isEnd

Trie_StartsWith(t, prefix) ==
    IF Len(prefix) = 0 THEN FALSE
    ELSE Trie_follow(t, Root, prefix, 1).found

Trie_Size(t) == t.size

Trie_IsEmpty(t) == t.size = 0

\* the first loop of Remove: pushes (node, ch) for every rune of word
RECURSIVE Trie_pushLoop(_, _, _, _, _)
Trie_pushLoop(t, current, word, i, s) ==
    IF i > Len(word) THEN [found |-> TRUE, current |-> current, s |-> s]
    ELSE IF ~Trie_hasChild(t, current, word[i])
         THEN [found |-> FALSE, current |-> current, s |-> s]
         ELSE Trie_pushLoop(t, Trie_child(current, word[i]), word, i + 1,
                            Stack_Push(s, [node |-> current, ch |-> word[i]]).s)

\* a backtracking loop that drops a childless node although it ends a word
RECURSIVE Trie_prune_noEndCheck(_, _)
Trie_prune_noEndCheck(t, s) ==
    IF Stack_IsEmpty(s) THEN t
    ELSE IF t.node[Trie_child(Stack_Pop(s).value.node,
                              Stack_Pop(s).value.ch)].children = {}
         THEN Trie_prune_noEndCheck(
                  Trie_delete(t, Stack_Pop(s).value.node, Stack_Pop(s).value.ch),
                  Stack_Pop(s).s)
         ELSE t

\* a backtracking loop that leaves every node in place
Trie_prune_never(t, s) == t

\* the second loop of Remove: pops (parent, ch) while the child is not needed
RECURSIVE Trie_prune(_, _)
Trie_prune(t, s) ==
    IF Stack_IsEmpty(s) THEN t
    ELSE IF /\ t.node[Trie_child(Stack_Pop(s).value.node,
                                 Stack_Pop(s).value.ch)].children = {}
            /\ ~t.node[Trie_child(Stack_Pop(s).value.node,
                                  Stack_Pop(s).value.ch)].isEnd
         THEN Trie_prune(
                  Trie_delete(t, Stack_Pop(s).value.node, Stack_Pop(s).value.ch),
                  Stack_Pop(s).s)
         ELSE t

Trie_removeFound(t, current, s) ==
    IF ~t.node[current].isEnd THEN [t |-> t, ok |-> FALSE]
    ELSE [t |-> [Trie_prune([t EXCEPT !.node[current].isEnd = FALSE], s)
                   EXCEPT !.size = t.size - 1],
          ok |-> TRUE]

Trie_Remove(t, word) ==
    IF Len(word) = 0 THEN [t |-> t, ok |-> FALSE]
    ELSE IF ~Trie_pushLoop(t, Root, word, 1, NewStack).found
         THEN [t |-> t, ok |-> FALSE]
    ELSE Trie_removeFound(t, Trie_pushLoop(t, Root, word, 1, NewStack).current,
                          Trie_pushLoop(t, Root, word, 1, NewStack).s)

\* ================================================= machines not running
\* each specification runs one structure; the others stay as constructed
HeapIdle ==
    /\ bh = NewBinaryHeap
    /\ net = 0
    /\ sorted = [valid |-> FALSE, rest |-> <<>>]

MinIdle == mh = <<>>

StackIdle == stack = NewStack

QueueIdle == queue = NewQueue

ListIdle == list = NewLinkedList

SetIdle == set = NewUnorderedSet

TrieIdle == trie = NewTrie /\ words = {}

ContIdle ==
    /\ StackIdle /\ QueueIdle /\ ListIdle /\ SetIdle /\ TrieIdle
    /\ abs = <<>>
    /\ crash = FALSE

ProcIdle ==
    /\ mutex = [readers |-> <<>>, writer |-> 0, pending |-> {}]
    /\ pc = <<>>
    /\ local = <<>>
    /\ log = <<>>

\* ======================================================= TreeMap machine
\* state machine: one action per public mutator, applied by a single caller
Void == [value |-> ZeroV, found |-> FALSE]

\* the branch labels kept in the state between calls
Observed == {"fd_nil", "rm_succ_direct", "rm_succ_deep"}

TreeInit ==
    /\ tm = NewTreeMap
    /\ panic = FALSE
    /\ trace = {}
    /\ op = [name |-> "NewTreeMap", present |-> FALSE]
    /\ ret = Void
    /\ m = <<>>
    /\ HeapIdle /\ MinIdle /\ ProcIdle /\ ContIdle

PutCall(k, v) ==
    /\ ~panic
    /\ LET r == Put(Run(tm), k, v) IN
        /\ tm' = Obj(r)
        /\ panic' = r.panic
        /\ trace' = r.path \cap Observed
    /\ op' = [name |-> "Put", present |-> k \in DOMAIN m]
    /\ ret' = Void
    /\ m' = [x \in DOMAIN m \cup {k} |-> IF x = k THEN v ELSE m[x]]
    /\ UNCHANGED <<contVars, heapVars, minVars, procVars>>

RemoveCall(k) ==
    /\ ~panic
    /\ LET r == Remove(Run(tm), k) IN
        /\ tm' = Obj(r.t)
        /\ panic' = r.t.panic
        /\ trace' = r.t.path \cap Observed
        /\ ret' = IF r.t.panic THEN Void ELSE [value |-> r.value, found |-> r.found]
    /\ op' = [name |-> "Remove", present |-> k \in DOMAIN m]
    /\ m' = [x \in DOMAIN m \ {k} |-> m[x]]
    /\ UNCHANGED <<contVars, heapVars, minVars, procVars>>

TreeNext ==
    \/ \E k \in KeySet, v \in ValSet : PutCall(k, v)
    \/ \E k \in KeySet : RemoveCall(k)

TreeSpec == TreeInit /\ [][TreeNext]_vars

\* ==================================================== BinaryHeap machine
\* state machine: one action per public method, applied by a single caller
TreeIdle ==
    /\ tm = NewTreeMap
    /\ panic = FALSE
    /\ trace = {}
    /\ m = <<>>

NoSort == [valid |-> FALSE, rest |-> <<>>]

HeapInit ==
    /\ bh \in {NewBinaryHeap} \cup
               {NewBinaryHeapWithComparator(c) : c \in {"lived", "livedName"}}
    /\ net = 0
    /\ sorted = NoSort
    /\ op = [name |-> "NewBinaryHeap"]
    /\ ret = [value |-> Zero(bh.cmp), err |-> FALSE]
    /\ TreeIdle /\ MinIdle /\ ProcIdle /\ ContIdle

AddCall(v) ==
    /\ Len(bh.data) < MaxHeap
    /\ bh' = Add(bh, v)
    /\ net' = net + 1
    /\ sorted' = NoSort
    /\ op' = [name |-> "Add"]
    /\ ret' = [value |-> Zero(bh.cmp), err |-> FALSE]
    /\ UNCHANGED <<contVars, treeVars, minVars, procVars>>

PollCall ==
    /\ LET r == Poll(bh) IN
        /\ bh' = r.h
        /\ ret' = [value |-> r.value, err |-> r.err]
        /\ net' = IF r.err THEN net ELSE net - 1
        /\ sorted' = IF sorted.valid /\ ~r.err /\ sorted.rest # <<>>
                     THEN [sorted EXCEPT !.rest = Tail(@)]
                     ELSE sorted
    /\ op' = [name |-> "Poll"]
    /\ UNCHANGED <<contVars, treeVars, minVars, procVars>>

ClearCall ==
    /\ bh' = Clear(bh)
    /\ net' = 0
    /\ sorted' = NoSort
    /\ op' = [name |-> "Clear"]
    /\ ret' = [value |-> Zero(bh.cmp), err |-> FALSE]
    /\ UNCHANGED <<contVars, treeVars, minVars, procVars>>

PeekCall ==
    /\ ret' = Peek(bh)
    /\ op' = [name |-> "Peek"]
    /\ UNCHANGED <<contVars, heapVars, treeVars, minVars, procVars>>

SizeCall ==
    /\ ret' = [value |-> HeapSize(bh), err |-> FALSE]
    /\ op' = [name |-> "Size"]
    /\ UNCHANGED <<contVars, heapVars, treeVars, minVars, procVars>>

IsEmptyCall ==
    /\ ret' = [value |-> IsEmpty(bh), err |-> FALSE]
    /\ op' = [name |-> "IsEmpty"]
    /\ UNCHANGED <<contVars, heapVars, treeVars, minVars, procVars>>

SortCall ==
    /\ LET r == Sort(bh) IN
        /\ bh' = r.h
        /\ ret' = [value |-> r.result, err |-> FALSE]
        /\ sorted' = [valid |-> TRUE, rest |-> r.result]
    /\ op' = [name |-> "Sort"]
    /\ UNCHANGED <<contVars, net, treeVars, minVars, procVars>>

HeapNext ==
    \/ \E v \in Elems(bh.cmp) : AddCall(v)
    \/ PollCall
    \/ ClearCall
    \/ PeekCall
    \/ SizeCall
    \/ IsEmptyCall
    \/ SortCall

HeapSpec == HeapInit /\ [][HeapNext]_vars

\* ========================================= BinaryHeap shared by goroutines
\* Every method is a sequence of statements; a goroutine executes one
\* statement per step.  sync.RWMutex: RLock waits while a writer holds the
\* mutex or has called Lock and waits for it; Lock waits for the writer and
\* all readers to leave.  A reader may hold the mutex more than once.
Goroutines == {1, 2}

ReadCalls == {"IsEmpty", "Size", "Peek", "Sort"}
WriteCalls == {"Add", "Poll", "Clear"}

NoCall == [call |-> "", val |-> 0, k |-> 0]

\* variant: Add does not take the mutex
entry_addUnlocked(c) ==
    IF c \in ReadCalls THEN "RLock" ELSE IF c = "Add" THEN "append" ELSE "Lock"

\* variant: Sort and Peek do not take the mutex
entry_readUnlocked(c) ==
    IF c \in {"Sort", "Peek"} THEN "read"
    ELSE IF c \in ReadCalls THEN "RLock" ELSE "Lock"

\* the first statement of a method: bh.mutex.RLock() or bh.mutex.Lock()
entry(c) == IF c \in ReadCalls THEN "RLock" ELSE "Lock"

CanRLock(mu) == mu.writer = 0 /\ mu.pending = {}
CanLock(mu) == mu.writer = 0 /\ \A g \in Goroutines : mu.readers[g] = 0

\* the deferred bh.mutex.Unlock() and bh.mutex.RUnlock()
Unlock(mu, g) == [mu EXCEPT !.writer = IF @ = g THEN 0 ELSE @]
RUnlock(mu, g) == [mu EXCEPT !.readers[g] = 0]

\* a goroutine that is inside RLock or Lock and cannot get the mutex
Blocked(g) ==
    \/ pc[g] \in {"RLock", "RLock2"} /\ ~CanRLock(mutex)
    \/ pc[g] = "Lock" /\ ~CanLock(mutex)

Crashed == \E g \in Goroutines : pc[g] = "panic"

ConcInit ==
    /\ bh = NewBinaryHeap
    /\ net = 0
    /\ sorted = NoSort
    /\ mutex = [readers |-> [g \in Goroutines |-> 0], writer |-> 0, pending |-> {}]
    /\ pc = [g \in Goroutines |-> "idle"]
    /\ local = [g \in Goroutines |-> NoCall]
    /\ log = [g \in Goroutines |-> <<>>]
    /\ op = [name |-> "go"]
    /\ ret = [value |-> 0, err |-> FALSE]
    /\ TreeIdle /\ MinIdle /\ ContIdle

\* the call returns: its result is recorded
return(g, value, err) ==
    /\ log' = [log EXCEPT ![g] = Append(@, [call |-> local[g].call, value |-> value,
                                            err |-> err])]
    /\ local' = [local EXCEPT ![g] = NoCall]
    /\ pc' = [pc EXCEPT ![g] = "idle"]

\* goroutine g calls method c; a writer that calls Lock is pending from then on
Start(g, c, v) ==
    /\ ~Crashed
    /\ pc[g] = "idle"
    /\ Len(log[g]) < MaxCalls
    /\ local' = [local EXCEPT ![g] = [call |-> c, val |-> v, k |-> 0]]
    /\ pc' = [pc EXCEPT ![g] = entry(c)]
    /\ mutex' = IF entry(c) = "Lock"
                THEN [mutex EXCEPT !.pending = @ \cup {g}]
                ELSE mutex
    /\ UNCHANGED <<contVars, treeVars, heapVars, minVars, log, op, ret>>

\* bh.mutex.RLock() of IsEmpty, Size, Peek, Sort, and of the Size() IsEmpty calls
RLockStep(g) ==
    /\ ~Crashed
    /\ pc[g] \in {"RLock", "RLock2"}
    /\ CanRLock(mutex)
    /\ mutex' = [mutex EXCEPT !.readers[g] = @ + 1]
    /\ pc' = [pc EXCEPT ![g] = IF pc[g] = "RLock" /\ local[g].call = "IsEmpty"
                               THEN "RLock2" ELSE "read"]
    /\ UNCHANGED <<contVars, treeVars, heapVars, minVars, local, log, op, ret>>

\* the body of a reading method, its deferred RUnlock calls and its return
ReadStep(g) ==
    /\ ~Crashed
    /\ pc[g] = "read"
    /\ mutex' = RUnlock(mutex, g)
    /\ CASE local[g].call = "IsEmpty" -> return(g, IsEmpty(bh), FALSE)
         [] local[g].call = "Size" -> return(g, HeapSize(bh), FALSE)
         [] local[g].call = "Peek" -> return(g, Peek(bh).value, Peek(bh).err)
         [] local[g].call = "Sort" -> return(g, Sort(bh).result, FALSE)
    /\ UNCHANGED <<contVars, treeVars, heapVars, minVars, op, ret>>

\* bh.mutex.Lock() returns
LockStep(g) ==
    /\ ~Crashed
    /\ pc[g] = "Lock"
    /\ CanLock(mutex)
    /\ mutex' = [mutex EXCEPT !.writer = g, !.pending = @ \ {g}]
    /\ pc' = [pc EXCEPT ![g] = CASE local[g].call = "Add" -> "append"
                                 [] local[g].call = "Poll" -> "check"
                                 [] local[g].call = "Clear" -> "clear"]
    /\ UNCHANGED <<contVars, treeVars, heapVars, minVars, local, log, op, ret>>

\* Add: bh.data = append(bh.data, val)
AppendStep(g) ==
    /\ ~Crashed
    /\ pc[g] = "append"
    /\ bh' = [bh EXCEPT !.data = Append(@, local[g].val)]
    /\ pc' = [pc EXCEPT ![g] = "index"]
    /\ UNCHANGED <<contVars, treeVars, net, sorted, minVars, mutex, local, log, op, ret>>

\* Add: idxOfLastElem := len(bh.data) - 1
IndexStep(g) ==
    /\ ~Crashed
    /\ pc[g] = "index"
    /\ local' = [local EXCEPT ![g].k = Len(bh.data) - 1]
    /\ pc' = [pc EXCEPT ![g] = "swim"]
    /\ UNCHANGED <<contVars, treeVars, heapVars, minVars, mutex, log, op, ret>>

\* Add: bh.swim(idxOfLastElem), the deferred Unlock and the return; an index
\* outside the slice is a run-time panic
SwimStep(g) ==
    /\ ~Crashed
    /\ pc[g] = "swim"
    /\ IF local[g].k < 0 \/ local[g].k >= Len(bh.data)
       THEN /\ pc' = [pc EXCEPT ![g] = "panic"]
            /\ UNCHANGED <<bh, mutex, local, log>>
       ELSE /\ bh' = [bh EXCEPT !.data = swim(@, bh.cmp, local[g].k)]
            /\ mutex' = Unlock(mutex, g)
            /\ return(g, local[g].val, FALSE)
    /\ UNCHANGED <<contVars, treeVars, net, sorted, minVars, op, ret>>

\* Poll: if len(bh.data) == 0 { return zero, errors.New("heap empty") }
CheckStep(g) ==
    /\ ~Crashed
    /\ pc[g] = "check"
    /\ IF Len(bh.data) = 0
       THEN /\ mutex' = Unlock(mutex, g)
            /\ return(g, Zero(bh.cmp), TRUE)
       ELSE /\ pc' = [pc EXCEPT ![g] = "removeAt"]
            /\ UNCHANGED <<mutex, local, log>>
    /\ UNCHANGED <<contVars, treeVars, heapVars, minVars, op, ret>>

\* Poll: return bh.removeAt(0), and the deferred Unlock
RemoveAtStep(g) ==
    /\ ~Crashed
    /\ pc[g] = "removeAt"
    /\ bh' = removeAt(bh, 0).h
    /\ mutex' = Unlock(mutex, g)
    /\ return(g, removeAt(bh, 0).value, removeAt(bh, 0).err)
    /\ UNCHANGED <<contVars, treeVars, net, sorted, minVars, op, ret>>

\* Clear: bh.data = nil, and the deferred Unlock
ClearStep(g) ==
    /\ ~Crashed
    /\ pc[g] = "clear"
    /\ bh' = Clear(bh)
    /\ mutex' = Unlock(mutex, g)
    /\ return(g, Zero(bh.cmp), FALSE)
    /\ UNCHANGED <<contVars, treeVars, net, sorted, minVars, op, ret>>

ConcNext ==
    \E g \in Goroutines :
        \/ \E c \in ReadCalls \cup {"Poll", "Clear"} : Start(g, c, 0)
        \/ \E v \in Ints : Start(g, "Add", v)
        \/ RLockStep(g)
        \/ ReadStep(g)
        \/ LockStep(g)
        \/ AppendStep(g)
        \/ IndexStep(g)
        \/ SwimStep(g)
        \/ CheckStep(g)
        \/ RemoveAtStep(g)
        \/ ClearStep(g)

HeapConcSpec == ConcInit /\ [][ConcNext]_vars

\* ============================================ TreeMap shared by goroutines
\* TreeMap has no mutex: the reads and writes of concurrent calls interleave.
\* A step of a goroutine is one read or one write of a field of the map or of
\* a node, with the tests and the assignments to local variables that follow
\* it; the program points are named by function and source line. Keys and
\* values of nodes are written before the node is linked and read as such.
\* Calls on one key may overlap, and a Put may be of a key that is stored.
\* The calls that returned are recorded with their key.
\* node: the node Put has built; cur, frames, ret: the calls of insertBST in
\* progress, and the node Get, findNode or minimum is at; n, gp, u: the
\* variables of fixInsert; x, y: those of the rotation, back: where it returns
\* to; z, succ, dx, dp, oc, val: the node Remove has found, its y, x, xParent,
\* originalColor and removedValue, dx and dp also the x and parent of
\* fixDelete and sib its sib; tu, tv: the u and v of transplant, tback: where
\* it returns to; a, b, c: the pointers and the color read for the statement
\* in progress; sz: the size read
TreeNoCall ==
    [call |-> "", key |-> ZeroK, node |-> Nil, cur |-> Nil, frames |-> <<>>,
     ret |-> Nil, n |-> Nil, gp |-> Nil, u |-> Nil, x |-> Nil, y |-> Nil,
     z |-> Nil, succ |-> Nil, dx |-> Nil, dp |-> Nil, sib |-> Nil, oc |-> Black,
     val |-> ZeroV, tu |-> Nil, tv |-> Nil, tback |-> "",
     a |-> Nil, b |-> Nil, c |-> Black, back |-> "", sz |-> 0,
     found |-> FALSE]

\* the keys goroutine g puts: goroutine 2 puts key 0, which is below the keys
\* stored when the map is shared, goroutine 1 any key
RaceKeys == 0..MaxRaceKey
KeysOf(g) == IF g = 1 THEN RaceKeys ELSE {0}

\* the nodes the locals r of a call point to
PointersOf(r) ==
    {r.node, r.cur, r.ret, r.n, r.gp, r.u, r.x, r.y, r.z, r.succ, r.dx, r.dp,
     r.sib, r.tu, r.tv, r.a, r.b} \cup {r.frames[i].root : i \in 1..Len(r.frames)}

\* a node the map, a node or a call in progress points to
Referenced(n) ==
    \/ n = tm.root
    \/ \E o \in NodeIds : n \in {tm.left[o], tm.right[o], tm.parent[o]}
    \/ \E g \in Goroutines : n \in PointersOf(local[g])

\* address of a freshly built node for key k: nothing points to it
Unreferenced == {n \in NodeIds : ~Referenced(n)}
newNode(k) == IF k + 1 \in Unreferenced THEN k + 1 ELSE Lowest(Unreferenced)

\* the map after the Puts of the keys of seq, one after the other
RECURSIVE PutAll(_, _)
PutAll(t, seq) ==
    IF seq = <<>> THEN t ELSE PutAll(Put(t, Head(seq), "v"), Tail(seq))

\* the keys put before the map is shared, in the order they are put: 1, 2, ...
SharedKeys == {[i \in 1..n |-> i] : n \in 0..MaxShared}

\* the map is built by one goroutine and then shared
RaceInit ==
    /\ \E seq \in SharedKeys :
          /\ tm = Obj(PutAll(Run(NewTreeMap), seq))
          /\ m = [k \in {seq[i] : i \in 1..Len(seq)} |-> "v"]
    /\ panic = FALSE
    /\ trace = {}
    /\ mutex = [readers |-> <<>>, writer |-> 0, pending |-> {}]
    /\ pc = [g \in Goroutines |-> "idle"]
    /\ local = [g \in Goroutines |-> TreeNoCall]
    /\ log = [g \in Goroutines |-> <<>>]
    /\ op = [name |-> "go"]
    /\ ret = Void
    /\ HeapIdle /\ MinIdle /\ ContIdle

\* what a step makes of the tree t and the locals r, and where it goes on: at
\* a program point, in a panic (a nil pointer is dereferenced) or in the return
TreeGoto(t, r, p) == [t |-> t, r |-> r, pc |-> p]
TreePanics(t, r) == TreeGoto(t, r, "panic")

\* the pointers read for one statement are dead after it
Tidy(r) == [r EXCEPT !.a = Nil, !.b = Nil]

\* where insertBST returns to: the caller's assignment of the result to
\* root.left or root.right, or Put's assignment to t.root
insertBSTReturn(frames) == IF frames = <<>> THEN "Put59w" ELSE "insertBST155"

\* insertBST(root, node), lines 151-165; the calls in progress are the frames
\* of r.frames, each with its root and the side it descended to; cur is the
\* argument root of the innermost call and ret the value returned last
insertBST_at(t, r, p) ==
    CASE p = "insertBST151" ->    \* if root == nil; the argument root.left of
                                  \* line 155 or root.right of line 158 is read
            IF r.cur = Nil
            THEN TreeGoto(t, [r EXCEPT !.ret = r.node], insertBSTReturn(r.frames))
            ELSE IF t.key[r.node] < t.key[r.cur]
            THEN TreeGoto(t, [r EXCEPT !.frames = Append(@, [root |-> r.cur,
                                                            side |-> "left"]),
                                       !.cur = t.left[r.cur]], "insertBST151")
            ELSE IF t.key[r.node] > t.key[r.cur]
            THEN TreeGoto(t, [r EXCEPT !.frames = Append(@, [root |-> r.cur,
                                                            side |-> "right"]),
                                       !.cur = t.right[r.cur]], "insertBST151")
            ELSE TreeGoto(t, r, "insertBST162")
      [] p = "insertBST155" ->    \* root.left = <result> (155), root.right = (158)
            TreeGoto(IF r.frames[Len(r.frames)].side = "left"
                     THEN [t EXCEPT !.left[r.frames[Len(r.frames)].root] = r.ret]
                     ELSE [t EXCEPT !.right[r.frames[Len(r.frames)].root] = r.ret],
                     r, "insertBST156")
      [] p = "insertBST156" ->    \* root.left.parent = root (156), root.right.parent
                                  \* = root (159): the child is read
            TreeGoto(t, [r EXCEPT !.a = IF r.frames[Len(r.frames)].side = "left"
                                        THEN t.left[r.frames[Len(r.frames)].root]
                                        ELSE t.right[r.frames[Len(r.frames)].root]],
                     "insertBST156w")
      [] p = "insertBST156w" ->   \* ... and its parent is written; return root
            IF r.a = Nil THEN TreePanics(t, r)
            ELSE TreeGoto([t EXCEPT !.parent[r.a] = r.frames[Len(r.frames)].root],
                          [Tidy(r) EXCEPT !.ret = r.frames[Len(r.frames)].root,
                                          !.frames = SubSeq(@, 1, Len(@) - 1)],
                          insertBSTReturn(SubSeq(r.frames, 1, Len(r.frames) - 1)))
      [] p = "insertBST162" ->    \* root.value = node.value
            TreeGoto([t EXCEPT !.value[r.cur] = t.value[r.node]], r, "insertBST163")
      [] p = "insertBST163" ->    \* t.size--: t.size is read
            TreeGoto(t, [r EXCEPT !.sz = t.size], "insertBST163w")
      [] p = "insertBST163w" ->   \* ... and written; return root
            TreeGoto([t EXCEPT !.size = r.sz - 1], [r EXCEPT !.ret = r.cur],
                     insertBSTReturn(r.frames))

\* rotateLeft(x), lines 65-80
rotateLeft_at(t, r, p) ==
    CASE p = "rotateLeft65" ->    \* y := x.right
            IF r.x = Nil THEN TreePanics(t, r)
            ELSE TreeGoto(t, [r EXCEPT !.y = t.right[r.x]], "rotateLeft66")
      [] p = "rotateLeft66" ->    \* x.right = y.left: y.left is read
            IF r.y = Nil THEN TreePanics(t, r)
            ELSE TreeGoto(t, [r EXCEPT !.a = t.left[r.y]], "rotateLeft66w")
      [] p = "rotateLeft66w" ->   \* ... and x.right is written
            TreeGoto([t EXCEPT !.right[r.x] = r.a], Tidy(r), "rotateLeft67")
      [] p = "rotateLeft67" ->    \* if y.left != nil
            TreeGoto(t, r, IF t.left[r.y] # Nil THEN "rotateLeft68" ELSE "rotateLeft70")
      [] p = "rotateLeft68" ->    \* y.left.parent = x: y.left is read
            TreeGoto(t, [r EXCEPT !.a = t.left[r.y]], "rotateLeft68w")
      [] p = "rotateLeft68w" ->   \* ... and its parent is written
            IF r.a = Nil THEN TreePanics(t, r)
            ELSE TreeGoto([t EXCEPT !.parent[r.a] = r.x], Tidy(r), "rotateLeft70")
      [] p = "rotateLeft70" ->    \* y.parent = x.parent: x.parent is read
            TreeGoto(t, [r EXCEPT !.a = t.parent[r.x]], "rotateLeft70w")
      [] p = "rotateLeft70w" ->   \* ... and y.parent is written
            TreeGoto([t EXCEPT !.parent[r.y] = r.a], Tidy(r), "rotateLeft71")
      [] p = "rotateLeft71" ->    \* if x.parent == nil
            TreeGoto(t, r, IF t.parent[r.x] = Nil THEN "rotateLeft72" ELSE "rotateLeft73")
      [] p = "rotateLeft72" ->    \* t.root = y
            TreeGoto([t EXCEPT !.root = r.y], r, "rotateLeft78")
      [] p = "rotateLeft73" ->    \* else if x == x.parent.left: x.parent is read
            TreeGoto(t, [r EXCEPT !.a = t.parent[r.x]], "rotateLeft73l")
      [] p = "rotateLeft73l" ->   \* ... and its left is read
            IF r.a = Nil THEN TreePanics(t, r)
            ELSE TreeGoto(t, Tidy(r), IF r.x = t.left[r.a] THEN "rotateLeft74"
                                      ELSE "rotateLeft76")
      [] p = "rotateLeft74" ->    \* x.parent.left = y: x.parent is read
            TreeGoto(t, [r EXCEPT !.a = t.parent[r.x]], "rotateLeft74w")
      [] p = "rotateLeft74w" ->   \* ... and its left is written
            IF r.a = Nil THEN TreePanics(t, r)
            ELSE TreeGoto([t EXCEPT !.left[r.a] = r.y], Tidy(r), "rotateLeft78")
      [] p = "rotateLeft76" ->    \* x.parent.right = y: x.parent is read
            TreeGoto(t, [r EXCEPT !.a = t.parent[r.x]], "rotateLeft76w")
      [] p = "rotateLeft76w" ->   \* ... and its right is written
            IF r.a = Nil THEN TreePanics(t, r)
            ELSE TreeGoto([t EXCEPT !.right[r.a] = r.y], Tidy(r), "rotateLeft78")
      [] p = "rotateLeft78" ->    \* y.left = x
            TreeGoto([t EXCEPT !.left[r.y] = r.x], r, "rotateLeft79")
      [] p = "rotateLeft79" ->    \* x.parent = y; return y
            TreeGoto([t EXCEPT !.parent[r.x] = r.y],
                     [r EXCEPT !.x = Nil, !.y = Nil, !.back = ""], r.back)

\* rotateRight(x), lines 84-99
rotateRight_at(t, r, p) ==
    CASE p = "rotateRight84" ->    \* y := x.left
            IF r.x = Nil THEN TreePanics(t, r)
            ELSE TreeGoto(t, [r EXCEPT !.y = t.left[r.x]], "rotateRight85")
      [] p = "rotateRight85" ->    \* x.left = y.right: y.right is read
            IF r.y = Nil THEN TreePanics(t, r)
            ELSE TreeGoto(t, [r EXCEPT !.a = t.right[r.y]], "rotateRight85w")
      [] p = "rotateRight85w" ->   \* ... and x.left is written
            TreeGoto([t EXCEPT !.left[r.x] = r.a], Tidy(r), "rotateRight86")
      [] p = "rotateRight86" ->    \* if y.right != nil
            TreeGoto(t, r, IF t.right[r.y] # Nil THEN "rotateRight87" ELSE "rotateRight89")
      [] p = "rotateRight87" ->    \* y.right.parent = x: y.right is read
            TreeGoto(t, [r EXCEPT !.a = t.right[r.y]], "rotateRight87w")
      [] p = "rotateRight87w" ->   \* ... and its parent is written
            IF r.a = Nil THEN TreePanics(t, r)
            ELSE TreeGoto([t EXCEPT !.parent[r.a] = r.x], Tidy(r), "rotateRight89")
      [] p = "rotateRight89" ->    \* y.parent = x.parent: x.parent is read
            TreeGoto(t, [r EXCEPT !.a = t.parent[r.x]], "rotateRight89w")
      [] p = "rotateRight89w" ->   \* ... and y.parent is written
            TreeGoto([t EXCEPT !.parent[r.y] = r.a], Tidy(r), "rotateRight90")
      [] p = "rotateRight90" ->    \* if x.parent == nil
            TreeGoto(t, r, IF t.parent[r.x] = Nil THEN "rotateRight91" ELSE "rotateRight92")
      [] p = "rotateRight91" ->    \* t.root = y
            TreeGoto([t EXCEPT !.root = r.y], r, "rotateRight97")
      [] p = "rotateRight92" ->    \* else if x == x.parent.left: x.parent is read
            TreeGoto(t, [r EXCEPT !.a = t.parent[r.x]], "rotateRight92l")
      [] p = "rotateRight92l" ->   \* ... and its left is read
            IF r.a = Nil THEN TreePanics(t, r)
            ELSE TreeGoto(t, Tidy(r), IF r.x = t.left[r.a] THEN "rotateRight93"
                                      ELSE "rotateRight95")
      [] p = "rotateRight93" ->    \* x.parent.left = y: x.parent is read
            TreeGoto(t, [r EXCEPT !.a = t.parent[r.x]], "rotateRight93w")
      [] p = "rotateRight93w" ->   \* ... and its left is written
            IF r.a = Nil THEN TreePanics(t, r)
            ELSE TreeGoto([t EXCEPT !.left[r.a] = r.y], Tidy(r), "rotateRight97")
      [] p = "rotateRight95" ->    \* x.parent.right = y: x.parent is read
            TreeGoto(t, [r EXCEPT !.a = t.parent[r.x]], "rotateRight95w")
      [] p = "rotateRight95w" ->   \* ... and its right is written
            IF r.a = Nil THEN TreePanics(t, r)
            ELSE TreeGoto([t EXCEPT !.right[r.a] = r.y], Tidy(r), "rotateRight97")
      [] p = "rotateRight97" ->    \* y.right = x
            TreeGoto([t EXCEPT !.right[r.y] = r.x], r, "rotateRight98")
      [] p = "rotateRight98" ->    \* x.parent = y; return y
            TreeGoto([t EXCEPT !.parent[r.x] = r.y],
                     [r EXCEPT !.x = Nil, !.y = Nil, !.back = ""], r.back)

\* fixInsert(n), lines 104-147, with the reads of isRed and getGrandParent
fixInsert_at(t, r, p) ==
    CASE p = "fixInsert104" ->    \* for n != t.root
            TreeGoto(t, r, IF r.n # t.root THEN "fixInsert104p" ELSE "fixInsert145")
      [] p = "fixInsert104p" ->   \* && t.isRed(n.parent): n.parent is read
            IF r.n = Nil THEN TreePanics(t, r)
            ELSE TreeGoto(t, [r EXCEPT !.a = t.parent[r.n]],
                          IF t.parent[r.n] = Nil THEN "fixInsert145"
                          ELSE "fixInsert104c")
      [] p = "fixInsert104c" ->   \* ... and its color is read
            TreeGoto(t, Tidy(r), IF t.color[r.a] = Red THEN "fixInsert105"
                                 ELSE "fixInsert145")
      [] p = "fixInsert105" ->    \* g := t.getGrandParent(n): if n.parent == nil
            TreeGoto(t, r, IF t.parent[r.n] = Nil THEN "fixInsert145"
                           ELSE "fixInsert105p")
      [] p = "fixInsert105p" ->   \* return n.parent.parent: n.parent is read
            TreeGoto(t, [r EXCEPT !.a = t.parent[r.n]], "fixInsert105g")
      [] p = "fixInsert105g" ->   \* ... and its parent is read; if g == nil { break }
            IF r.a = Nil THEN TreePanics(t, r)
            ELSE TreeGoto(t, [Tidy(r) EXCEPT !.gp = t.parent[r.a]],
                          IF t.parent[r.a] = Nil THEN "fixInsert145"
                          ELSE "fixInsert109")
      [] p = "fixInsert109" ->    \* if n.parent == g.left: n.parent is read
            TreeGoto(t, [r EXCEPT !.a = t.parent[r.n]], "fixInsert109l")
      [] p = "fixInsert109l" ->   \* ... and g.left is read
            TreeGoto(t, Tidy(r), IF r.a = t.left[r.gp] THEN "fixInsert110"
                                 ELSE "fixInsert127")
      [] p = "fixInsert110" ->    \* u := g.right; isRed(u): u == nil
            TreeGoto(t, [r EXCEPT !.u = t.right[r.gp]],
                     IF t.right[r.gp] = Nil THEN "fixInsert117" ELSE "fixInsert111")
      [] p = "fixInsert111" ->    \* isRed(u): u.color is read
            TreeGoto(t, r, IF t.color[r.u] = Red THEN "fixInsert112" ELSE "fixInsert117")
      [] p = "fixInsert112" ->    \* n.parent.color = Black: n.parent is read
            TreeGoto(t, [r EXCEPT !.a = t.parent[r.n]], "fixInsert112w")
      [] p = "fixInsert112w" ->   \* ... and its color is written
            IF r.a = Nil THEN TreePanics(t, r)
            ELSE TreeGoto([t EXCEPT !.color[r.a] = Black], Tidy(r), "fixInsert113")
      [] p = "fixInsert113" ->    \* u.color = Black
            TreeGoto([t EXCEPT !.color[r.u] = Black], r, "fixInsert114")
      [] p = "fixInsert114" ->    \* g.color = Red; n = g
            TreeGoto([t EXCEPT !.color[r.gp] = Red],
                     [r EXCEPT !.n = r.gp, !.gp = Nil, !.u = Nil], "fixInsert104")
      [] p = "fixInsert117" ->    \* if n == n.parent.right: n.parent is read
            TreeGoto(t, [r EXCEPT !.a = t.parent[r.n]], "fixInsert117r")
      [] p = "fixInsert117r" ->   \* ... and its right is read
            IF r.a = Nil THEN TreePanics(t, r)
            ELSE TreeGoto(t, Tidy(r), IF r.n = t.right[r.a] THEN "fixInsert118"
                                      ELSE "fixInsert122")
      [] p = "fixInsert118" ->    \* n = n.parent; t.rotateLeft(n)
            TreeGoto(t, [r EXCEPT !.n = t.parent[r.n], !.x = t.parent[r.n],
                                  !.back = "fixInsert122"], "rotateLeft65")
      [] p = "fixInsert122" ->    \* n.parent.color = Black: n.parent is read
            IF r.n = Nil THEN TreePanics(t, r)
            ELSE TreeGoto(t, [r EXCEPT !.a = t.parent[r.n]], "fixInsert122w")
      [] p = "fixInsert122w" ->   \* ... and its color is written
            IF r.a = Nil THEN TreePanics(t, r)
            ELSE TreeGoto([t EXCEPT !.color[r.a] = Black], Tidy(r), "fixInsert123")
      [] p = "fixInsert123" ->    \* g.color = Red; t.rotateRight(g)
            TreeGoto([t EXCEPT !.color[r.gp] = Red],
                     [r EXCEPT !.x = r.gp, !.gp = Nil, !.u = Nil,
                               !.back = "fixInsert104"], "rotateRight84")
      [] p = "fixInsert127" ->    \* u := g.left; isRed(u): u == nil
            TreeGoto(t, [r EXCEPT !.u = t.left[r.gp]],
                     IF t.left[r.gp] = Nil THEN "fixInsert134" ELSE "fixInsert128")
      [] p = "fixInsert128" ->    \* isRed(u): u.color is read
            TreeGoto(t, r, IF t.color[r.u] = Red THEN "fixInsert129" ELSE "fixInsert134")
      [] p = "fixInsert129" ->    \* n.parent.color = Black: n.parent is read
            TreeGoto(t, [r EXCEPT !.a = t.parent[r.n]], "fixInsert129w")
      [] p = "fixInsert129w" ->   \* ... and its color is written
            IF r.a = Nil THEN TreePanics(t, r)
            ELSE TreeGoto([t EXCEPT !.color[r.a] = Black], Tidy(r), "fixInsert130")
      [] p = "fixInsert130" ->    \* u.color = Black
            TreeGoto([t EXCEPT !.color[r.u] = Black], r, "fixInsert131")
      [] p = "fixInsert131" ->    \* g.color = Red; n = g
            TreeGoto([t EXCEPT !.color[r.gp] = Red],
                     [r EXCEPT !.n = r.gp, !.gp = Nil, !.u = Nil], "fixInsert104")
      [] p = "fixInsert134" ->    \* if n == n.parent.left: n.parent is read
            TreeGoto(t, [r EXCEPT !.a = t.parent[r.n]], "fixInsert134l")
      [] p = "fixInsert134l" ->   \* ... and its left is read
            IF r.a = Nil THEN TreePanics(t, r)
            ELSE TreeGoto(t, Tidy(r), IF r.n = t.left[r.a] THEN "fixInsert135"
                                      ELSE "fixInsert139")
      [] p = "fixInsert135" ->    \* n = n.parent; t.rotateRight(n)
            TreeGoto(t, [r EXCEPT !.n = t.parent[r.n], !.x = t.parent[r.n],
                                  !.back = "fixInsert139"], "rotateRight84")
      [] p = "fixInsert139" ->    \* n.parent.color = Black: n.parent is read
            IF r.n = Nil THEN TreePanics(t, r)
            ELSE TreeGoto(t, [r EXCEPT !.a = t.parent[r.n]], "fixInsert139w")
      [] p = "fixInsert139w" ->   \* ... and its color is written
            IF r.a = Nil THEN TreePanics(t, r)
            ELSE TreeGoto([t EXCEPT !.color[r.a] = Black], Tidy(r), "fixInsert140")
      [] p = "fixInsert140" ->    \* g.color = Red; t.rotateLeft(g)
            TreeGoto([t EXCEPT !.color[r.gp] = Red],
                     [r EXCEPT !.x = r.gp, !.gp = Nil, !.u = Nil,
                               !.back = "fixInsert104"], "rotateLeft65")
      [] p = "fixInsert145" ->    \* if t.root != nil
            TreeGoto(t, [r EXCEPT !.n = Nil, !.gp = Nil, !.u = Nil, !.a = Nil],
                     IF t.root # Nil THEN "fixInsert146" ELSE "Put61")
      [] p = "fixInsert146" ->    \* t.root.color = Black: t.root is read
            TreeGoto(t, [r EXCEPT !.a = t.root], "fixInsert146w")
      [] p = "fixInsert146w" ->   \* ... and its color is written
            IF r.a = Nil THEN TreePanics(t, r)
            ELSE TreeGoto([t EXCEPT !.color[r.a] = Black], Tidy(r), "Put61")

\* Put(key, value) after newNode is built, lines 59-61
Put_at(t, r, p) ==
    CASE p = "Put59" ->           \* the argument t.root of insertBST is read
            TreeGoto(t, [r EXCEPT !.cur = t.root, !.frames = <<>>], "insertBST151")
      [] p = "Put59w" ->          \* t.root = <result>; t.fixInsert(newNode)
            TreeGoto([t EXCEPT !.root = r.ret],
                     [r EXCEPT !.cur = Nil, !.ret = Nil, !.n = r.node],
                     "fixInsert104")
      [] p = "Put61" ->           \* t.size++: t.size is read
            TreeGoto(t, [r EXCEPT !.sz = t.size], "Put61w")
      [] p = "Put61w" ->          \* ... and written; Put returns
            TreeGoto([t EXCEPT !.size = r.sz + 1], r, "return")

\* Get(key), lines 169-180
Get_at(t, r, p) ==
    CASE p = "Get169" ->          \* current := t.root
            TreeGoto(t, [r EXCEPT !.cur = t.root], "Get170")
      [] p = "Get170" ->          \* for current != nil; current = current.left
                                  \* or current.right
            IF r.cur = Nil THEN TreeGoto(t, [r EXCEPT !.found = FALSE], "return")
            ELSE IF r.key = t.key[r.cur]
            THEN TreeGoto(t, [r EXCEPT !.found = TRUE], "return")
            ELSE IF r.key < t.key[r.cur]
            THEN TreeGoto(t, [r EXCEPT !.cur = t.left[r.cur]], "Get170")
            ELSE TreeGoto(t, [r EXCEPT !.cur = t.right[r.cur]], "Get170")

\* the locals of transplant, of fixDelete and of the rotation are dead when
\* Remove goes on after them
\* where Remove goes on after line 274: fixDelete is called when the node
\* taken out was black
afterUnlink(r) == IF r.oc = Black THEN "fixDelete290" ELSE "TreeRemove282"

\* where transplant returns to
transplantReturn(t, r) ==
    TreeGoto(t, [Tidy(r) EXCEPT !.tu = Nil, !.tv = Nil, !.tback = ""],
             IF r.tback = "TreeRemove277" THEN afterUnlink(r) ELSE r.tback)

\* t.transplant(z, y) of line 268
callTransplant268(t, r) ==
    TreeGoto(t, [Tidy(r) EXCEPT !.tu = r.z, !.tv = r.succ, !.tback = "TreeRemove269"],
             "transplant188")

\* transplant(u, v), lines 188-197
transplant_at(t, r, p) ==
    CASE p = "transplant188" ->   \* if u.parent == nil
            IF r.tu = Nil THEN TreePanics(t, r)
            ELSE TreeGoto(t, r, IF t.parent[r.tu] = Nil THEN "transplant189"
                                ELSE "transplant190")
      [] p = "transplant189" ->   \* t.root = v; if v != nil
            TreeGoto([t EXCEPT !.root = r.tv], r, "transplant195")
      [] p = "transplant190" ->   \* else if u == u.parent.left: u.parent is read
            TreeGoto(t, [r EXCEPT !.a = t.parent[r.tu]], "transplant190l")
      [] p = "transplant190l" ->  \* ... and its left is read
            IF r.a = Nil THEN TreePanics(t, r)
            ELSE TreeGoto(t, Tidy(r), IF r.tu = t.left[r.a] THEN "transplant191"
                                      ELSE "transplant193")
      [] p = "transplant191" ->   \* u.parent.left = v: u.parent is read
            TreeGoto(t, [r EXCEPT !.a = t.parent[r.tu]], "transplant191w")
      [] p = "transplant191w" ->  \* ... and its left is written
            IF r.a = Nil THEN TreePanics(t, r)
            ELSE TreeGoto([t EXCEPT !.left[r.a] = r.tv], Tidy(r), "transplant195")
      [] p = "transplant193" ->   \* u.parent.right = v: u.parent is read
            TreeGoto(t, [r EXCEPT !.a = t.parent[r.tu]], "transplant193w")
      [] p = "transplant193w" ->  \* ... and its right is written
            IF r.a = Nil THEN TreePanics(t, r)
            ELSE TreeGoto([t EXCEPT !.right[r.a] = r.tv], Tidy(r), "transplant195")
      [] p = "transplant195" ->   \* if v != nil { v.parent = u.parent }: u.parent
                                  \* is read
            IF r.tv = Nil THEN transplantReturn(t, r)
            ELSE TreeGoto(t, [r EXCEPT !.a = t.parent[r.tu]], "transplant196w")
      [] p = "transplant196w" ->  \* ... and v.parent is written
            transplantReturn([t EXCEPT !.parent[r.tv] = r.a], r)

\* minimum(n), lines 201-208, called at line 250 of Remove; cur is its cur
minimum_at(t, r, p) ==
    CASE p = "minimum205" ->      \* for cur.left != nil; return cur
            IF r.cur = Nil THEN TreePanics(t, r)
            ELSE IF t.left[r.cur] # Nil THEN TreeGoto(t, r, "minimum206")
            ELSE TreeGoto(t, [r EXCEPT !.succ = r.cur, !.cur = Nil], "TreeRemove251")
      [] p = "minimum206" ->      \* cur = cur.left
            TreeGoto(t, [r EXCEPT !.cur = t.left[r.cur]], "minimum205")

\* findNode(key), lines 212-222, called at line 227 of Remove, and the test
\* of its result at line 229
findNode_at(t, r, p) ==
    CASE p = "findNode212" ->     \* cur := t.root
            TreeGoto(t, [r EXCEPT !.cur = t.root], "findNode213")
      [] p = "findNode213" ->     \* for cur != nil; cur = cur.left or cur.right
            IF r.cur = Nil              \* return nil; if z == nil { return zero, false }
            THEN TreeGoto(t, [r EXCEPT !.found = FALSE], "return")
            ELSE IF r.key = t.key[r.cur]
            THEN TreeGoto(t, [r EXCEPT !.z = r.cur, !.cur = Nil], "TreeRemove233")
            ELSE IF r.key < t.key[r.cur]
            THEN TreeGoto(t, [r EXCEPT !.cur = t.left[r.cur]], "findNode213")
            ELSE TreeGoto(t, [r EXCEPT !.cur = t.right[r.cur]], "findNode213")

\* Remove(key), lines 233-283; succ is its y, dx its x and dp its xParent,
\* oc its originalColor
TreeRemove_at(t, r, p) ==
    CASE p = "TreeRemove233" ->   \* removedValue := z.value
            TreeGoto(t, [r EXCEPT !.val = t.value[r.z]], "TreeRemove236")
      [] p = "TreeRemove236" ->   \* y := z; originalColor := y.color
            TreeGoto(t, [r EXCEPT !.oc = t.color[r.z]], "TreeRemove240")
      [] p = "TreeRemove240" ->   \* if z.left == nil
            TreeGoto(t, r, IF t.left[r.z] = Nil THEN "TreeRemove241"
                           ELSE "TreeRemove244")
      [] p = "TreeRemove241" ->   \* x = z.right
            TreeGoto(t, [r EXCEPT !.dx = t.right[r.z]], "TreeRemove242")
      [] p = "TreeRemove242" ->   \* xParent = z.parent
            TreeGoto(t, [r EXCEPT !.dp = t.parent[r.z]], "TreeRemove243")
      [] p = "TreeRemove243" ->   \* t.transplant(z, z.right): z.right is read
            TreeGoto(t, [r EXCEPT !.tu = r.z, !.tv = t.right[r.z],
                                  !.tback = "TreeRemove277"], "transplant188")
      [] p = "TreeRemove244" ->   \* else if z.right == nil
            TreeGoto(t, r, IF t.right[r.z] = Nil THEN "TreeRemove245"
                           ELSE "TreeRemove250")
      [] p = "TreeRemove245" ->   \* x = z.left
            TreeGoto(t, [r EXCEPT !.dx = t.left[r.z]], "TreeRemove246")
      [] p = "TreeRemove246" ->   \* xParent = z.parent
            TreeGoto(t, [r EXCEPT !.dp = t.parent[r.z]], "TreeRemove247")
      [] p = "TreeRemove247" ->   \* t.transplant(z, z.left): z.left is read
            TreeGoto(t, [r EXCEPT !.tu = r.z, !.tv = t.left[r.z],
                                  !.tback = "TreeRemove277"], "transplant188")
      [] p = "TreeRemove250" ->   \* y = t.minimum(z.right): z.right is read;
                                  \* if n == nil { return nil }
            IF t.right[r.z] = Nil
            THEN TreeGoto(t, [r EXCEPT !.succ = Nil], "TreeRemove251")
            ELSE TreeGoto(t, [r EXCEPT !.cur = t.right[r.z]], "minimum205")
      [] p = "TreeRemove251" ->   \* originalColor = y.color
            IF r.succ = Nil THEN TreePanics(t, r)
            ELSE TreeGoto(t, [r EXCEPT !.oc = t.color[r.succ]], "TreeRemove252")
      [] p = "TreeRemove252" ->   \* x = y.right
            TreeGoto(t, [r EXCEPT !.dx = t.right[r.succ]], "TreeRemove253")
      [] p = "TreeRemove253" ->   \* if y.parent == z
            TreeGoto(t, r, IF t.parent[r.succ] = r.z THEN "TreeRemove255"
                           ELSE "TreeRemove261")
      [] p = "TreeRemove255" ->   \* if x != nil { x.parent = y }; xParent = y
            callTransplant268(IF r.dx # Nil THEN [t EXCEPT !.parent[r.dx] = r.succ]
                              ELSE t,
                              [r EXCEPT !.dp = r.succ])
      [] p = "TreeRemove261" ->   \* xParent = y.parent
            TreeGoto(t, [r EXCEPT !.dp = t.parent[r.succ]], "TreeRemove262")
      [] p = "TreeRemove262" ->   \* t.transplant(y, y.right): y.right is read
            TreeGoto(t, [r EXCEPT !.tu = r.succ, !.tv = t.right[r.succ],
                                  !.tback = "TreeRemove263"], "transplant188")
      [] p = "TreeRemove263" ->   \* y.right = z.right: z.right is read
            TreeGoto(t, [r EXCEPT !.a = t.right[r.z]], "TreeRemove263w")
      [] p = "TreeRemove263w" ->  \* ... and y.right is written
            TreeGoto([t EXCEPT !.right[r.succ] = r.a], Tidy(r), "TreeRemove264")
      [] p = "TreeRemove264" ->   \* if y.right != nil
            IF t.right[r.succ] # Nil THEN TreeGoto(t, r, "TreeRemove265")
            ELSE callTransplant268(t, r)
      [] p = "TreeRemove265" ->   \* y.right.parent = y: y.right is read
            TreeGoto(t, [r EXCEPT !.a = t.right[r.succ]], "TreeRemove265w")
      [] p = "TreeRemove265w" ->  \* ... and its parent is written
            IF r.a = Nil THEN TreePanics(t, r)
            ELSE callTransplant268([t EXCEPT !.parent[r.a] = r.succ], r)
      [] p = "TreeRemove269" ->   \* y.left = z.left: z.left is read
            TreeGoto(t, [r EXCEPT !.a = t.left[r.z]], "TreeRemove269w")
      [] p = "TreeRemove269w" ->  \* ... and y.left is written
            TreeGoto([t EXCEPT !.left[r.succ] = r.a], Tidy(r), "TreeRemove270")
      [] p = "TreeRemove270" ->   \* if y.left != nil
            TreeGoto(t, r, IF t.left[r.succ] # Nil THEN "TreeRemove271"
                           ELSE "TreeRemove273")
      [] p = "TreeRemove271" ->   \* y.left.parent = y: y.left is read
            TreeGoto(t, [r EXCEPT !.a = t.left[r.succ]], "TreeRemove271w")
      [] p = "TreeRemove271w" ->  \* ... and its parent is written
            IF r.a = Nil THEN TreePanics(t, r)
            ELSE TreeGoto([t EXCEPT !.parent[r.a] = r.succ], Tidy(r), "TreeRemove273")
      [] p = "TreeRemove273" ->   \* y.color = z.color: z.color is read
            TreeGoto(t, [r EXCEPT !.c = t.color[r.z]], "TreeRemove273w")
      [] p = "TreeRemove273w" ->  \* ... and y.color is written; if originalColor
                                  \* == Black
            TreeGoto([t EXCEPT !.color[r.succ] = r.c], [r EXCEPT !.c = Black],
                     afterUnlink(r))
      [] p = "TreeRemove282" ->   \* t.size--: t.size is read
            TreeGoto(t, [r EXCEPT !.sz = t.size], "TreeRemove282w")
      [] p = "TreeRemove282w" ->  \* ... and written; return removedValue, true
            TreeGoto([t EXCEPT !.size = r.sz - 1], [r EXCEPT !.found = TRUE],
                     "return")

\* the body of the loop of fixDelete, from line 292: if parent == nil { break }
fixDeleteBody(r) == IF r.dp = Nil THEN "fixDelete377" ELSE "fixDelete296"

\* fixDelete(x, parent), lines 290-379, with the reads of isRed; dx is its x,
\* dp its parent
fixDelete_at(t, r, p) ==
    CASE p = "fixDelete290" ->    \* for (x != t.root) && (x == nil || ...
            TreeGoto(t, r,
                     IF r.dx = t.root THEN "fixDelete377"
                     ELSE IF r.dx = Nil THEN fixDeleteBody(r)
                     ELSE "fixDelete290c")
      [] p = "fixDelete290c" ->   \* ... !t.isRed(x)): x.color is read
            TreeGoto(t, r, IF t.color[r.dx] = Red THEN "fixDelete377"
                           ELSE fixDeleteBody(r))
      [] p = "fixDelete296" ->    \* if x == parent.left
            TreeGoto(t, r, IF r.dx = t.left[r.dp] THEN "fixDelete297"
                           ELSE "fixDelete338")
      [] p = "fixDelete297" ->    \* sib = parent.right; if t.isRed(sib): sib == nil
            TreeGoto(t, [r EXCEPT !.sib = t.right[r.dp]],
                     IF t.right[r.dp] = Nil THEN "fixDelete307" ELSE "fixDelete299")
      [] p = "fixDelete299" ->    \* isRed(sib): sib.color is read
            TreeGoto(t, r, IF t.color[r.sib] = Red THEN "fixDelete300"
                           ELSE "fixDelete307")
      [] p = "fixDelete300" ->    \* sib.color = Black
            TreeGoto([t EXCEPT !.color[r.sib] = Black], r, "fixDelete301")
      [] p = "fixDelete301" ->    \* parent.color = Red; t.rotateLeft(parent)
            TreeGoto([t EXCEPT !.color[r.dp] = Red],
                     [r EXCEPT !.x = r.dp, !.back = "fixDelete304"], "rotateLeft65")
      [] p = "fixDelete304" ->    \* sib = parent.right
            TreeGoto(t, [r EXCEPT !.sib = t.right[r.dp]], "fixDelete307")
      [] p = "fixDelete307" ->    \* if sib == nil || (!t.isRed(sib.left) ...:
                                  \* sib.left is read
            IF r.sib = Nil THEN TreeGoto(t, r, "fixDelete311")
            ELSE TreeGoto(t, [r EXCEPT !.a = t.left[r.sib]],
                          IF t.left[r.sib] = Nil THEN "fixDelete307r"
                          ELSE "fixDelete307c")
      [] p = "fixDelete307c" ->   \* ... and its color is read
            TreeGoto(t, Tidy(r), IF t.color[r.a] = Red THEN "fixDelete315"
                                 ELSE "fixDelete307r")
      [] p = "fixDelete307r" ->   \* ... && !t.isRed(sib.right)): sib.right is read
            TreeGoto(t, [r EXCEPT !.a = t.right[r.sib]],
                     IF t.right[r.sib] = Nil THEN "fixDelete309"
                     ELSE "fixDelete307d")
      [] p = "fixDelete307d" ->   \* ... and its color is read
            TreeGoto(t, Tidy(r), IF t.color[r.a] = Red THEN "fixDelete315"
                                 ELSE "fixDelete309")
      [] p = "fixDelete309" ->    \* if sib != nil { sib.color = Red }
            TreeGoto([t EXCEPT !.color[r.sib] = Red], Tidy(r), "fixDelete311")
      [] p = "fixDelete311" ->    \* x = parent; parent = x.parent
            TreeGoto(t, [r EXCEPT !.dx = r.dp, !.dp = t.parent[r.dp], !.sib = Nil],
                     "fixDelete290")
      [] p = "fixDelete315" ->    \* if !t.isRed(sib.right): sib.right is read
            TreeGoto(t, [r EXCEPT !.a = t.right[r.sib]],
                     IF t.right[r.sib] = Nil THEN "fixDelete317"
                     ELSE "fixDelete315c")
      [] p = "fixDelete315c" ->   \* ... and its color is read; if sib != nil
            TreeGoto(t, Tidy(r), IF t.color[r.a] = Red THEN "fixDelete326"
                                 ELSE "fixDelete317")
      [] p = "fixDelete317" ->    \* if sib.left != nil
            TreeGoto(t, Tidy(r), IF t.left[r.sib] # Nil THEN "fixDelete318"
                                 ELSE "fixDelete320")
      [] p = "fixDelete318" ->    \* sib.left.color = Black: sib.left is read
            TreeGoto(t, [r EXCEPT !.a = t.left[r.sib]], "fixDelete318w")
      [] p = "fixDelete318w" ->   \* ... and its color is written
            IF r.a = Nil THEN TreePanics(t, r)
            ELSE TreeGoto([t EXCEPT !.color[r.a] = Black], Tidy(r), "fixDelete320")
      [] p = "fixDelete320" ->    \* sib.color = Red; t.rotateRight(sib)
            TreeGoto([t EXCEPT !.color[r.sib] = Red],
                     [r EXCEPT !.x = r.sib, !.back = "fixDelete322"], "rotateRight84")
      [] p = "fixDelete322" ->    \* sib = parent.right; if sib != nil
            TreeGoto(t, [r EXCEPT !.sib = t.right[r.dp]],
                     IF t.right[r.dp] # Nil THEN "fixDelete326" ELSE "fixDelete331")
      [] p = "fixDelete326" ->    \* sib.color = parent.color: parent.color is read
            TreeGoto(t, [r EXCEPT !.c = t.color[r.dp]], "fixDelete326w")
      [] p = "fixDelete326w" ->   \* ... and sib.color is written
            TreeGoto([t EXCEPT !.color[r.sib] = r.c], [r EXCEPT !.c = Black],
                     "fixDelete327")
      [] p = "fixDelete327" ->    \* if sib.right != nil
            TreeGoto(t, r, IF t.right[r.sib] # Nil THEN "fixDelete328"
                           ELSE "fixDelete331")
      [] p = "fixDelete328" ->    \* sib.right.color = Black: sib.right is read
            TreeGoto(t, [r EXCEPT !.a = t.right[r.sib]], "fixDelete328w")
      [] p = "fixDelete328w" ->   \* ... and its color is written
            IF r.a = Nil THEN TreePanics(t, r)
            ELSE TreeGoto([t EXCEPT !.color[r.a] = Black], Tidy(r), "fixDelete331")
      [] p = "fixDelete331" ->    \* parent.color = Black; t.rotateLeft(parent)
            TreeGoto([t EXCEPT !.color[r.dp] = Black],
                     [r EXCEPT !.x = r.dp, !.sib = Nil, !.back = "fixDelete333"],
                     "rotateLeft65")
      [] p = "fixDelete333" ->    \* x = t.root; parent = nil
            TreeGoto(t, [r EXCEPT !.dx = t.root, !.dp = Nil], "fixDelete290")
      [] p = "fixDelete338" ->    \* sib = parent.left; if t.isRed(sib): sib == nil
            TreeGoto(t, [r EXCEPT !.sib = t.left[r.dp]],
                     IF t.left[r.dp] = Nil THEN "fixDelete347" ELSE "fixDelete340")
      [] p = "fixDelete340" ->    \* isRed(sib): sib.color is read
            TreeGoto(t, r, IF t.color[r.sib] = Red THEN "fixDelete341"
                           ELSE "fixDelete347")
      [] p = "fixDelete341" ->    \* sib.color = Black
            TreeGoto([t EXCEPT !.color[r.sib] = Black], r, "fixDelete342")
      [] p = "fixDelete342" ->    \* parent.color = Red; t.rotateRight(parent)
            TreeGoto([t EXCEPT !.color[r.dp] = Red],
                     [r EXCEPT !.x = r.dp, !.back = "fixDelete344"], "rotateRight84")
      [] p = "fixDelete344" ->    \* sib = parent.left
            TreeGoto(t, [r EXCEPT !.sib = t.left[r.dp]], "fixDelete347")
      [] p = "fixDelete347" ->    \* if sib == nil || (!t.isRed(sib.left) ...:
                                  \* sib.left is read
            IF r.sib = Nil THEN TreeGoto(t, r, "fixDelete351")
            ELSE TreeGoto(t, [r EXCEPT !.a = t.left[r.sib]],
                          IF t.left[r.sib] = Nil THEN "fixDelete347r"
                          ELSE "fixDelete347c")
      [] p = "fixDelete347c" ->   \* ... and its color is read
            TreeGoto(t, Tidy(r), IF t.color[r.a] = Red THEN "fixDelete355"
                                 ELSE "fixDelete347r")
      [] p = "fixDelete347r" ->   \* ... && !t.isRed(sib.right)): sib.right is read
            TreeGoto(t, [r EXCEPT !.a = t.right[r.sib]],
                     IF t.right[r.sib] = Nil THEN "fixDelete349"
                     ELSE "fixDelete347d")
      [] p = "fixDelete347d" ->   \* ... and its color is read
            TreeGoto(t, Tidy(r), IF t.color[r.a] = Red THEN "fixDelete355"
                                 ELSE "fixDelete349")
      [] p = "fixDelete349" ->    \* if sib != nil { sib.color = Red }
            TreeGoto([t EXCEPT !.color[r.sib] = Red], Tidy(r), "fixDelete351")
      [] p = "fixDelete351" ->    \* x = parent; parent = x.parent
            TreeGoto(t, [r EXCEPT !.dx = r.dp, !.dp = t.parent[r.dp], !.sib = Nil],
                     "fixDelete290")
      [] p = "fixDelete355" ->    \* if !t.isRed(sib.left): sib.left is read
            TreeGoto(t, [r EXCEPT !.a = t.left[r.sib]],
                     IF t.left[r.sib] = Nil THEN "fixDelete356"
                     ELSE "fixDelete355c")
      [] p = "fixDelete355c" ->   \* ... and its color is read; if sib != nil
            TreeGoto(t, Tidy(r), IF t.color[r.a] = Red THEN "fixDelete365"
                                 ELSE "fixDelete356")
      [] p = "fixDelete356" ->    \* if sib.right != nil
            TreeGoto(t, Tidy(r), IF t.right[r.sib] # Nil THEN "fixDelete357"
                                 ELSE "fixDelete359")
      [] p = "fixDelete357" ->    \* sib.right.color = Black: sib.right is read
            TreeGoto(t, [r EXCEPT !.a = t.right[r.sib]], "fixDelete357w")
      [] p = "fixDelete357w" ->   \* ... and its color is written
            IF r.a = Nil THEN TreePanics(t, r)
            ELSE TreeGoto([t EXCEPT !.color[r.a] = Black], Tidy(r), "fixDelete359")
      [] p = "fixDelete359" ->    \* sib.color = Red; t.rotateLeft(sib)
            TreeGoto([t EXCEPT !.color[r.sib] = Red],
                     [r EXCEPT !.x = r.sib, !.back = "fixDelete361"], "rotateLeft65")
      [] p = "fixDelete361" ->    \* sib = parent.left; if sib != nil
            TreeGoto(t, [r EXCEPT !.sib = t.left[r.dp]],
                     IF t.left[r.dp] # Nil THEN "fixDelete365" ELSE "fixDelete370")
      [] p = "fixDelete365" ->    \* sib.color = parent.color: parent.color is read
            TreeGoto(t, [r EXCEPT !.c = t.color[r.dp]], "fixDelete365w")
      [] p = "fixDelete365w" ->   \* ... and sib.color is written
            TreeGoto([t EXCEPT !.color[r.sib] = r.c], [r EXCEPT !.c = Black],
                     "fixDelete366")
      [] p = "fixDelete366" ->    \* if sib.left != nil
            TreeGoto(t, r, IF t.left[r.sib] # Nil THEN "fixDelete367"
                           ELSE "fixDelete370")
      [] p = "fixDelete367" ->    \* sib.left.color = Black: sib.left is read
            TreeGoto(t, [r EXCEPT !.a = t.left[r.sib]], "fixDelete367w")
      [] p = "fixDelete367w" ->   \* ... and its color is written
            IF r.a = Nil THEN TreePanics(t, r)
            ELSE TreeGoto([t EXCEPT !.color[r.a] = Black], Tidy(r), "fixDelete370")
      [] p = "fixDelete370" ->    \* parent.color = Black; t.rotateRight(parent)
            TreeGoto([t EXCEPT !.color[r.dp] = Black],
                     [r EXCEPT !.x = r.dp, !.sib = Nil, !.back = "fixDelete372"],
                     "rotateRight84")
      [] p = "fixDelete372" ->    \* x = t.root; parent = nil
            TreeGoto(t, [r EXCEPT !.dx = t.root, !.dp = Nil], "fixDelete290")
      [] p = "fixDelete377" ->    \* if x != nil { x.color = Black }
            TreeGoto(IF r.dx # Nil THEN [t EXCEPT !.color[r.dx] = Black] ELSE t,
                     [Tidy(r) EXCEPT !.dx = Nil, !.dp = Nil, !.sib = Nil],
                     "TreeRemove282")

insertBSTPoints ==
    {"insertBST151", "insertBST155", "insertBST156", "insertBST156w",
     "insertBST162", "insertBST163", "insertBST163w"}
rotateLeftPoints ==
    {"rotateLeft65", "rotateLeft66", "rotateLeft66w", "rotateLeft67",
     "rotateLeft68", "rotateLeft68w", "rotateLeft70", "rotateLeft70w",
     "rotateLeft71", "rotateLeft72", "rotateLeft73", "rotateLeft73l",
     "rotateLeft74", "rotateLeft74w", "rotateLeft76", "rotateLeft76w",
     "rotateLeft78", "rotateLeft79"}
rotateRightPoints ==
    {"rotateRight84", "rotateRight85", "rotateRight85w", "rotateRight86",
     "rotateRight87", "rotateRight87w", "rotateRight89", "rotateRight89w",
     "rotateRight90", "rotateRight91", "rotateRight92", "rotateRight92l",
     "rotateRight93", "rotateRight93w", "rotateRight95", "rotateRight95w",
     "rotateRight97", "rotateRight98"}
fixInsertPoints ==
    {"fixInsert104", "fixInsert104c", "fixInsert104p", "fixInsert105",
     "fixInsert105g", "fixInsert105p", "fixInsert109", "fixInsert109l",
     "fixInsert110", "fixInsert111", "fixInsert112", "fixInsert112w",
     "fixInsert113", "fixInsert114", "fixInsert117", "fixInsert117r",
     "fixInsert118", "fixInsert122", "fixInsert122w", "fixInsert123",
     "fixInsert127", "fixInsert128", "fixInsert129", "fixInsert129w",
     "fixInsert130", "fixInsert131", "fixInsert134", "fixInsert134l",
     "fixInsert135", "fixInsert139", "fixInsert139w", "fixInsert140",
     "fixInsert145", "fixInsert146", "fixInsert146w"}
PutPoints ==
    {"Put59", "Put59w", "Put61", "Put61w"}
GetPoints ==
    {"Get169", "Get170"}
transplantPoints ==
    {"transplant188", "transplant189", "transplant190", "transplant190l",
     "transplant191", "transplant191w", "transplant193", "transplant193w",
     "transplant195", "transplant196w"}
minimumPoints ==
    {"minimum205", "minimum206"}
findNodePoints ==
    {"findNode212", "findNode213"}
TreeRemovePoints ==
    {"TreeRemove233", "TreeRemove236", "TreeRemove240", "TreeRemove241",
     "TreeRemove242", "TreeRemove243", "TreeRemove244", "TreeRemove245",
     "TreeRemove246", "TreeRemove247", "TreeRemove250", "TreeRemove251",
     "TreeRemove252", "TreeRemove253", "TreeRemove255", "TreeRemove261",
     "TreeRemove262", "TreeRemove263", "TreeRemove263w", "TreeRemove264",
     "TreeRemove265", "TreeRemove265w", "TreeRemove269", "TreeRemove269w",
     "TreeRemove270", "TreeRemove271", "TreeRemove271w", "TreeRemove273",
     "TreeRemove273w", "TreeRemove282", "TreeRemove282w"}
fixDeletePoints ==
    {"fixDelete290", "fixDelete290c", "fixDelete296", "fixDelete297",
     "fixDelete299", "fixDelete300", "fixDelete301", "fixDelete304",
     "fixDelete307", "fixDelete307c", "fixDelete307d", "fixDelete307r",
     "fixDelete309", "fixDelete311", "fixDelete315", "fixDelete315c",
     "fixDelete317", "fixDelete318", "fixDelete318w", "fixDelete320",
     "fixDelete322", "fixDelete326", "fixDelete326w", "fixDelete327",
     "fixDelete328", "fixDelete328w", "fixDelete331", "fixDelete333",
     "fixDelete338", "fixDelete340", "fixDelete341", "fixDelete342",
     "fixDelete344", "fixDelete347", "fixDelete347c", "fixDelete347d",
     "fixDelete347r", "fixDelete349", "fixDelete351", "fixDelete355",
     "fixDelete355c", "fixDelete356", "fixDelete357", "fixDelete357w",
     "fixDelete359", "fixDelete361", "fixDelete365", "fixDelete365w",
     "fixDelete366", "fixDelete367", "fixDelete367w", "fixDelete370",
     "fixDelete372", "fixDelete377"}
\* goroutine g makes the step n; a Put that returns has put its key and a
\* Remove that returns has removed its key
TreeTake(g, n) ==
    /\ ~panic
    /\ IF n.pc = "panic"
       THEN /\ panic' = TRUE
            /\ pc' = [pc EXCEPT ![g] = "panic"]
            /\ UNCHANGED <<tm, m, local, log>>
       ELSE /\ panic' = panic
            /\ tm' = n.t
            /\ IF n.pc = "return"
               THEN /\ log' = [log EXCEPT ![g] =
                                 Append(@, [call |-> n.r.call, key |-> n.r.key,
                                            found |-> n.r.found])]
                    /\ m' = CASE n.r.call = "Put" ->
                                   [k \in DOMAIN m \cup {n.r.key} |->
                                       IF k = n.r.key THEN tm.value[n.r.node]
                                       ELSE m[k]]
                              [] n.r.call = "Remove" ->
                                   [k \in DOMAIN m \ {n.r.key} |-> m[k]]
                              [] OTHER -> m
                    /\ local' = [local EXCEPT ![g] = TreeNoCall]
                    /\ pc' = [pc EXCEPT ![g] = "idle"]
               ELSE /\ local' = [local EXCEPT ![g] = n.r]
                    /\ pc' = [pc EXCEPT ![g] = n.pc]
                    /\ UNCHANGED <<m, log>>
    /\ UNCHANGED <<contVars, trace, heapVars, minVars, mutex, op, ret>>

\* Put: newNode := &Node[K, V]{key: key, value: value, color: Red}
NewNodeStep(g, k, v) ==
    /\ ~panic
    /\ pc[g] = "idle"
    /\ Len(log[g]) < MaxRaceCalls
    /\ Unreferenced # {}
    /\ tm' = build(tm, newNode(k), k, v)
    /\ local' = [local EXCEPT ![g] = [TreeNoCall EXCEPT !.call = "Put", !.key = k,
                                                         !.node = newNode(k)]]
    /\ pc' = [pc EXCEPT ![g] = "Put59"]
    /\ UNCHANGED <<contVars, panic, trace, m, heapVars, minVars, mutex, log, op, ret>>

\* goroutine g calls Get(k)
GetCallStep(g, k) ==
    /\ ~panic
    /\ pc[g] = "idle"
    /\ Len(log[g]) < MaxRaceCalls
    /\ local' = [local EXCEPT ![g] = [TreeNoCall EXCEPT !.call = "Get", !.key = k]]
    /\ pc' = [pc EXCEPT ![g] = "Get169"]
    /\ UNCHANGED <<contVars, treeVars, heapVars, minVars, mutex, log, op, ret>>

\* goroutine g calls Remove(k)
TreeRemoveCallStep(g, k) ==
    /\ ~panic
    /\ pc[g] = "idle"
    /\ Len(log[g]) < MaxRaceCalls
    /\ local' = [local EXCEPT ![g] = [TreeNoCall EXCEPT !.call = "Remove", !.key = k]]
    /\ pc' = [pc EXCEPT ![g] = "findNode212"]
    /\ UNCHANGED <<contVars, treeVars, heapVars, minVars, mutex, log, op, ret>>

PutStep(g) ==
    pc[g] \in PutPoints /\ TreeTake(g, Put_at(tm, local[g], pc[g]))
InsertBSTStep(g) ==
    pc[g] \in insertBSTPoints /\ TreeTake(g, insertBST_at(tm, local[g], pc[g]))
FixInsertStep(g) ==
    pc[g] \in fixInsertPoints /\ TreeTake(g, fixInsert_at(tm, local[g], pc[g]))
RotateLeftStep(g) ==
    pc[g] \in rotateLeftPoints /\ TreeTake(g, rotateLeft_at(tm, local[g], pc[g]))
RotateRightStep(g) ==
    pc[g] \in rotateRightPoints /\ TreeTake(g, rotateRight_at(tm, local[g], pc[g]))
GetStep(g) ==
    pc[g] \in GetPoints /\ TreeTake(g, Get_at(tm, local[g], pc[g]))
FindNodeStep(g) ==
    pc[g] \in findNodePoints /\ TreeTake(g, findNode_at(tm, local[g], pc[g]))
TreeRemoveStep(g) ==
    pc[g] \in TreeRemovePoints /\ TreeTake(g, TreeRemove_at(tm, local[g], pc[g]))
MinimumStep(g) ==
    pc[g] \in minimumPoints /\ TreeTake(g, minimum_at(tm, local[g], pc[g]))
TransplantStep(g) ==
    pc[g] \in transplantPoints /\ TreeTake(g, transplant_at(tm, local[g], pc[g]))
FixDeleteStep(g) ==
    pc[g] \in fixDeletePoints /\ TreeTake(g, fixDelete_at(tm, local[g], pc[g]))

RaceNext ==
    \E g \in Goroutines :
        \/ \E k \in KeysOf(g) : NewNodeStep(g, k, "v")
        \/ \E k \in RaceKeys : GetCallStep(g, k)
        \/ \E k \in RaceKeys : TreeRemoveCallStep(g, k)
        \/ PutStep(g)
        \/ InsertBSTStep(g)
        \/ FixInsertStep(g)
        \/ RotateLeftStep(g)
        \/ RotateRightStep(g)
        \/ GetStep(g)
        \/ FindNodeStep(g)
        \/ TreeRemoveStep(g)
        \/ MinimumStep(g)
        \/ TransplantStep(g)
        \/ FixDeleteStep(g)

TreeRaceSpec == RaceInit /\ [][RaceNext]_vars

\* ============================================ min-heap without comparator
\* the BinaryHeap that compares its elements with < and > (T is int here)
\* "var i any = -1": what Peek and Poll return with the error
MinusOne == -1

RECURSIVE minSwim(_, _)
minSwim(data, k) ==
    IF k > 0 /\ At(data, (k - 1) \div 2) > At(data, k)
    THEN minSwim(swap(data, (k - 1) \div 2, k), (k - 1) \div 2)
    ELSE data

minAdd(data, val) == minSwim(Append(data, val), Len(data))

\* "if bh.data[child+1] < bh.data[child] { child = child + 1 }"
minChild(data, child) ==
    IF At(data, child + 1) < At(data, child) THEN child + 1 ELSE child

\* the loop of removeAt: "for child < bh.Size()-1 { ... child = 2 * child ... }"
RECURSIVE minSink(_, _, _)
minSinkFrom(data, parent, ch) ==
    IF At(data, ch) < At(data, parent)
    THEN minSink(swap(data, ch, parent), ch, 2 * ch)
    ELSE data

minSink(data, parent, child) ==
    IF child < Len(data) - 1 THEN minSinkFrom(data, parent, minChild(data, child))
    ELSE data

\* removeAt(k) of a non-empty heap: "bh.data[0] = last", the slice shortened by
\* one, then the loop from parent := 0, child := 2 * (parent + 1)
minRemoveAt(data, k) ==
    [data |-> minSink(SubSeq([data EXCEPT ![1] = At(data, Len(data) - 1)],
                             1, Len(data) - 1),
                      0, 2 * (0 + 1)),
     value |-> At(data, k), err |-> FALSE]

minPoll(data) ==
    IF Len(data) = 0 THEN [data |-> data, value |-> MinusOne, err |-> TRUE]
    ELSE minRemoveAt(data, 0)

minPeek(data) ==
    IF Len(data) = 0 THEN [value |-> MinusOne, err |-> TRUE]
    ELSE [value |-> At(data, 0), err |-> FALSE]

MinInit ==
    /\ mh = <<>>
    /\ op = [name |-> "NewBinaryHeap"]
    /\ ret = [value |-> 0, err |-> FALSE]
    /\ TreeIdle /\ HeapIdle /\ ProcIdle /\ ContIdle

MinAddCall(v) ==
    /\ Len(mh) < MaxHeap
    /\ mh' = minAdd(mh, v)
    /\ op' = [name |-> "Add"]
    /\ ret' = [value |-> 0, err |-> FALSE]
    /\ UNCHANGED <<contVars, treeVars, heapVars, procVars>>

MinPollCall ==
    /\ mh' = minPoll(mh).data
    /\ op' = [name |-> "Poll"]
    /\ ret' = [value |-> minPoll(mh).value, err |-> minPoll(mh).err]
    /\ UNCHANGED <<contVars, treeVars, heapVars, procVars>>

MinPeekCall ==
    /\ op' = [name |-> "Peek"]
    /\ ret' = minPeek(mh)
    /\ UNCHANGED <<contVars, mh, treeVars, heapVars, procVars>>

\* Clear: bh.data = nil
MinClearCall ==
    /\ mh' = <<>>
    /\ op' = [name |-> "Clear"]
    /\ ret' = [value |-> 0, err |-> FALSE]
    /\ UNCHANGED <<contVars, treeVars, heapVars, procVars>>

MinNext ==
    \/ \E v \in Ints : MinAddCall(v)
    \/ MinPollCall
    \/ MinPeekCall
    \/ MinClearCall

MinHeapSpec == MinInit /\ [][MinNext]_vars

\* ======================================================== TreeMap properties
RECURSIVE Reach(_, _)
Reach(t, n) ==
    IF n = Nil THEN {} ELSE {n} \cup Reach(t, t.left[n]) \cup Reach(t, t.right[n])

\* number of Black nodes on every path from n down to nil, -1 when paths differ
RECURSIVE BlackHeight(_, _)
BlackHeight(t, n) ==
    IF n = Nil THEN 0
    ELSE LET l == BlackHeight(t, t.left[n])
             r == BlackHeight(t, t.right[n])
         IN  IF l < 0 \/ r < 0 \/ l # r THEN -1
             ELSE l + (IF t.color[n] = Black THEN 1 ELSE 0)

NoRedRed(t) ==
    \A n \in Reach(t, t.root) :
        isRed(t, n) => ~isRed(t, t.left[n]) /\ ~isRed(t, t.right[n])

StoredKeys == DOMAIN m

SetMin(S) == CHOOSE x \in S : \A y \in S : x <= y
SetMax(S) == CHOOSE x \in S : \A y \in S : x >= y

RECURSIVE Ascending(_)
Ascending(S) ==
    IF S = {} THEN <<>> ELSE <<SetMin(S)>> \o Ascending(S \ {SetMin(S)})

QuerySet == (-1)..(MaxKey + 1)

\* C1: after any sequence of Put and Remove calls from the empty map the tree
\* is a valid red-black tree: the root is Black, no Red node has a Red child,
\* and every root-to-nil path holds the same number of Black nodes.
C1_RedBlackValid ==
    /\ tm.root # Nil => tm.color[tm.root] = Black
    /\ NoRedRed(tm)
    /\ BlackHeight(tm, tm.root) >= 0

\* a Remove that took out a Black node with no child and rebalanced a tree
\* that still has four keys or more, one of them Red
C1_Witness ==
    /\ op.name = "Remove" /\ ret.found
    /\ "fd_nil" \in trace
    /\ tm.size >= 4
    /\ \E n \in Reach(tm, tm.root) : isRed(tm, n)

\* C2: after any sequence of Put and Remove calls Keys() is exactly the stored
\* keys in strictly ascending order, without duplicates.
C2_KeysAscending == Keys(tm) = Ascending(StoredKeys)

\* a Remove of a node with two children whose successor was deeper than its
\* right child, leaving four keys or more
C2_Witness ==
    /\ op.name = "Remove" /\ ret.found
    /\ "rm_succ_deep" \in trace
    /\ Len(Keys(tm)) >= 4

GetAgrees ==
    \A k \in KeySet :
        Get(tm, k) = IF k \in DOMAIN m THEN [value |-> m[k], found |-> TRUE]
                     ELSE [value |-> ZeroV, found |-> FALSE]

RemoveReturns ==
    (op'.name = "Remove" /\ op'.present) =>
        \E k \in DOMAIN m \ DOMAIN m' : ret' = [value |-> m[k], found |-> TRUE]

\* C3: the tree refines the abstract map m: Get(k) is (m[k], true) for a stored
\* key and (zero, false) otherwise, and Remove of a stored key returns
\* (m[k], true); removing a node with two children loses no other entry.
C3_RefinesMap == [](GetAgrees) /\ [][RemoveReturns]_vars

\* a Remove of a node with two children returned a non-zero value and left
\* three entries or more, one of them with a non-zero value
C3_Witness ==
    /\ op.name = "Remove" /\ ret = [value |-> "v", found |-> TRUE]
    /\ trace \cap {"rm_succ_direct", "rm_succ_deep"} # {}
    /\ Cardinality(DOMAIN m) >= 3
    /\ \E k \in DOMAIN m : m[k] = "v"

SizeCounts ==
    /\ tm.size = Cardinality(Reach(tm, tm.root))
    /\ tm.size = Cardinality(StoredKeys)

SizeSteps ==
    /\ (op'.name = "Put" /\ ~op'.present) => tm'.size = tm.size + 1
    /\ (op'.name = "Put" /\ op'.present) => tm'.size = tm.size
    /\ (op'.name = "Remove" /\ ret'.found) => tm'.size = tm.size - 1
    /\ (op'.name = "Remove" /\ ~ret'.found) => tm'.size = tm.size
    /\ tm'.size > tm.size => (op'.name = "Put" /\ ~op'.present)
    /\ tm'.size < tm.size => (op'.name = "Remove" /\ ret'.found)

\* C4: Size() is the number of keys stored (nodes reachable from the root); it
\* grows by one only on Put of a new key, shrinks by one only on a Remove that
\* returns found = true, and is unchanged by every other call.
C4_SizeIsCount == [](SizeCounts) /\ [][SizeSteps]_vars

\* a Put of a stored key on a tree of three keys or more
C4_Witness == op.name = "Put" /\ op.present /\ tm.size >= 3

PutExistingFrame ==
    (op'.name = "Put" /\ op'.present) =>
        \E k \in DOMAIN m :
            /\ m' = [m EXCEPT ![k] = m'[k]]
            /\ tm' = [tm EXCEPT !.value[findNode(tm, k)] = m'[k]]

\* C5: Put(k, v) of a stored key overwrites the value of k in place and changes
\* nothing else: links, colours, the other values and Size() stay as they were.
C5_PutExistingInPlace == [][PutExistingFrame]_vars

\* a Put of a stored key that changed its value, in a tree of three keys or more
C5_Witness ==
    /\ op.name = "Put" /\ op.present
    /\ tm.size >= 3
    /\ \E k \in DOMAIN m : m[k] = "v" /\ tm.value[findNode(tm, k)] = "v"
    /\ \E k \in DOMAIN m : m[k] = ""

RemoveAbsentFrame ==
    (op'.name = "Remove" /\ ~op'.present) => (ret' = Void /\ tm' = tm)

\* C6: Remove(k) of a key that is not stored returns (zero, false) and leaves
\* the whole tree unchanged.
C6_RemoveAbsentNoop == [][RemoveAbsentFrame]_vars

\* a Remove of an absent key on a tree of three keys or more
C6_Witness ==
    /\ op.name = "Remove" /\ ~op.present
    /\ ret = Void
    /\ tm.size >= 3

CeilingOf(q) ==
    LET c == {k \in StoredKeys : k >= q} IN
    IF c = {} THEN [key |-> ZeroK, found |-> FALSE]
    ELSE [key |-> SetMin(c), found |-> TRUE]

FloorOf(q) ==
    LET c == {k \in StoredKeys : k <= q} IN
    IF c = {} THEN [key |-> ZeroK, found |-> FALSE]
    ELSE [key |-> SetMax(c), found |-> TRUE]

\* C7: for every reachable tree and query key q, CeilingKey(q) is (the smallest
\* stored key >= q, true), or (zero, false) when there is none, and FloorKey(q)
\* is (the largest stored key <= q, true), or (zero, false) when there is none.
C7_CeilingFloor ==
    \A q \in QuerySet :
        /\ CeilingKey(tm, q) = CeilingOf(q)
        /\ FloorKey(tm, q) = FloorOf(q)

\* a tree where the ceiling of an absent key lies below the root (the candidate
\* recorded at the root is improved further down), the floor of an absent key
\* lies above the root, an absent key has both, and both queries can miss
C7_Witness ==
    /\ tm.size >= 3
    /\ \E q \in KeySet \ StoredKeys :
           CeilingKey(tm, q).found /\ CeilingKey(tm, q).key < tm.key[tm.root]
    /\ \E q \in KeySet \ StoredKeys :
           FloorKey(tm, q).found /\ FloorKey(tm, q).key > tm.key[tm.root]
    /\ \E q \in KeySet \ StoredKeys :
           CeilingKey(tm, q).found /\ FloorKey(tm, q).found
    /\ \E q \in QuerySet : ~CeilingKey(tm, q).found
    /\ \E q \in QuerySet : ~FloorKey(tm, q).found

\* C8: on a non-empty tree FirstKey() is (minimum key, true), LastKey() is
\* (maximum key, true) and Min()/Max() return that key with its value; on an
\* empty tree FirstKey()/LastKey() report found = false and Min()/Max() return
\* the zero key and the zero value.
C8_FirstLastMinMax ==
    IF StoredKeys = {}
    THEN /\ ~FirstKey(tm).found /\ ~LastKey(tm).found
         /\ Min(tm) = [key |-> ZeroK, value |-> ZeroV]
         /\ Max(tm) = [key |-> ZeroK, value |-> ZeroV]
    ELSE /\ FirstKey(tm) = [key |-> SetMin(StoredKeys), found |-> TRUE]
         /\ LastKey(tm) = [key |-> SetMax(StoredKeys), found |-> TRUE]
         /\ Min(tm) = [key |-> SetMin(StoredKeys), value |-> m[SetMin(StoredKeys)]]
         /\ Max(tm) = [key |-> SetMax(StoredKeys), value |-> m[SetMax(StoredKeys)]]

\* a tree of four keys or more whose minimum and maximum are not at the root
\* and carry different values
C8_Witness ==
    /\ tm.size >= 4
    /\ FirstKey(tm).key # tm.key[tm.root]
    /\ LastKey(tm).key # tm.key[tm.root]
    /\ Min(tm).value # Max(tm).value

EmptyTreeCallsReturn ==
    tm.root = Nil =>
        /\ \A k \in QuerySet :
              /\ Get(tm, k) = [value |-> ZeroV, found |-> FALSE]
              /\ ~Remove(Run(tm), k).found /\ ~Remove(Run(tm), k).t.panic
              /\ ~CeilingKey(tm, k).found
              /\ ~FloorKey(tm, k).found
        /\ ~FirstKey(tm).found /\ ~LastKey(tm).found
        /\ Min(tm).key = ZeroK /\ Max(tm).key = ZeroK

\* C9: no operation dereferences a nil node: no Put or Remove ever panics, not
\* even when the node replacing the removed one is nil, and on the empty tree
\* every query and Remove returns normally.
C9_NoNilDereference == ~panic /\ EmptyTreeCallsReturn

\* a Remove whose replacement node was nil ran fixDelete on a tree that still
\* has three keys or more
C9_Witness ==
    /\ op.name = "Remove" /\ ret.found
    /\ "fd_nil" \in trace
    /\ tm.size >= 3
    /\ ~panic

\* ===================================================== BinaryHeap properties
HeapProperty(h) ==
    \A k \in 1..(Len(h.data) - 1) :
        ~cmp(h.cmp, At(h.data, k), At(h.data, (k - 1) \div 2))

\* C10: after any completed sequence of Add, Poll and Clear calls no element
\* of the backing slice outranks its parent: cmp(data[k], data[(k-1)/2]) is
\* false for every index k >= 1.
C10_HeapProperty == HeapProperty(bh)

\* a Poll left four elements or more, the right child of the root outranks
\* the left one, and two elements tie under cmp
C10_Witness ==
    /\ op.name = "Poll" /\ ~ret.err
    /\ Len(bh.data) >= 4
    /\ cmp(bh.cmp, At(bh.data, 2), At(bh.data, 1))
    /\ \E i, j \in 0..(Len(bh.data) - 1) :
           /\ At(bh.data, i) # At(bh.data, j)
           /\ ~cmp(bh.cmp, At(bh.data, i), At(bh.data, j))
           /\ ~cmp(bh.cmp, At(bh.data, j), At(bh.data, i))

\* number of occurrences of v in a sequence
Count(seq, v) == Cardinality({i \in 1..Len(seq) : seq[i] = v})

\* seq is rest with one occurrence of v more
OneMore(seq, rest, v) ==
    \A e \in Elems(bh.cmp) :
        Count(seq, e) = Count(rest, e) + (IF e = v THEN 1 ELSE 0)

\* two different elements of the heap that neither outranks
Tie(data) ==
    \E i, j \in 1..Len(data) :
        /\ data[i] # data[j]
        /\ ~cmp(bh.cmp, data[i], data[j])
        /\ ~cmp(bh.cmp, data[j], data[i])

\* a successful Poll right after a successful Poll returns an element that does
\* not outrank the one before; under the tie-breaking comparator the earlier
\* one outranks the later one or equals it
PollOrder ==
    (op.name = "Poll" /\ ~ret.err /\ op'.name = "Poll" /\ ~ret'.err) =>
        /\ ~cmp(bh.cmp, ret'.value, ret.value)
        /\ bh.cmp = "livedName" =>
               (cmp(bh.cmp, ret.value, ret'.value) \/ ret.value = ret'.value)

\* Poll fails exactly on the empty heap and otherwise takes one stored element
PollTakesOne ==
    op'.name = "Poll" =>
        IF Len(bh.data) = 0 THEN ret'.err /\ bh' = bh
        ELSE ~ret'.err /\ OneMore(bh.data, bh'.data, ret'.value)

\* C11: repeated Poll calls return every stored element exactly once, each
\* one not outranking the one polled before it, and in fully sorted order
\* under the comparator that breaks ties (Lived descending, then longer Name).
C11_PollOrder == [][PollOrder /\ PollTakesOne]_vars

\* a Poll in the middle of draining a heap of four or more persons, two of
\* which differ only in the name
C11_Witness ==
    /\ op.name = "Poll" /\ ~ret.err
    /\ bh.cmp = "livedName"
    /\ sorted.valid /\ Len(sorted.rest) >= 3
    /\ \E i, j \in 1..Len(bh.data) :
           /\ bh.data[i].lived = bh.data[j].lived
           /\ bh.data[i].name # bh.data[j].name

SizeIsNet ==
    /\ HeapSize(bh) = net
    /\ IsEmpty(bh) <=> (net = 0)
    /\ op.name = "Size" => ret.value = net
    /\ op.name = "IsEmpty" => (ret.value <=> (net = 0))

FailedPollKeepsSize ==
    (op'.name = "Poll" /\ ret'.err) => HeapSize(bh') = HeapSize(bh)

\* C12: Size() is the number of Add calls minus the number of successful Poll
\* calls since construction or the last Clear, IsEmpty() is true exactly when
\* that number is 0, and a failed Poll leaves Size() as it was.
C12_SizeIsNet == [](SizeIsNet) /\ [][FailedPollKeepsSize]_vars

\* Size() was called on a heap that holds three elements or more
C12_Witness ==
    /\ op.name = "Size"
    /\ ret.value >= 3
    /\ ~IsEmpty(bh)

\* the largest element of a non-empty sequence of integers
SeqMax(seq) == CHOOSE x \in {seq[i] : i \in 1..Len(seq)} :
                   \A i \in 1..Len(seq) : seq[i] <= x

PeekMax ==
    op'.name = "Peek" =>
        /\ bh' = bh
        /\ (bh.cmp = "natural" /\ Len(bh.data) > 0) =>
               ret' = [value |-> SeqMax(bh.data), err |-> FALSE]

PollMax ==
    (op'.name = "Poll" /\ bh.cmp = "natural" /\ Len(bh.data) > 0) =>
        /\ ret' = [value |-> SeqMax(bh.data), err |-> FALSE]
        /\ OneMore(bh.data, bh'.data, SeqMax(bh.data))

\* C13: on a non-empty heap built with NewBinaryHeap, Peek() returns the
\* maximum of the stored elements and leaves the heap as it is, and Poll()
\* returns that maximum and removes one occurrence of it.
C13_MaxFirst == [][PeekMax /\ PollMax]_vars

\* Peek() answered on a natural-order heap of three elements or more whose
\* maximum was not the first element added
C13_Witness ==
    /\ op.name = "Peek" /\ ~ret.err
    /\ bh.cmp = "natural"
    /\ Len(bh.data) >= 3
    /\ \E i \in 1..Len(bh.data) : bh.data[i] < ret.value
    /\ bh.data[2] < bh.data[3]

SortFrame ==
    op'.name = "Sort" =>
        /\ bh'.data = bh.data
        /\ HeapSize(bh') = HeapSize(bh)
        /\ Peek(bh') = Peek(bh)
        /\ op.name = "Sort" => ret' = ret

\* C14: Sort() leaves the backing sequence, Size() and the result of Peek()
\* unchanged, and a Sort() right after a Sort() returns the same sequence.
C14_SortFrame == [][SortFrame]_vars

\* Sort() returned three elements or more in an order other than the slice's
C14_Witness ==
    /\ op.name = "Sort"
    /\ Len(bh.data) >= 3
    /\ ret.value # bh.data

SortShape ==
    op.name = "Sort" =>
        /\ Len(ret.value) = HeapSize(bh)
        /\ \A e \in Elems(bh.cmp) : Count(ret.value, e) = Count(bh.data, e)
        /\ bh.cmp = "natural" =>
               \A i \in 1..(Len(ret.value) - 1) : ret.value[i] >= ret.value[i + 1]

PollFollowsSort ==
    (op'.name = "Poll" /\ sorted.valid) =>
        IF sorted.rest = <<>> THEN ret'.err
        ELSE ~ret'.err /\ ret'.value = Head(sorted.rest)

\* C15: Sort() returns Size() elements, the stored ones, in the order in
\* which the Poll calls that follow return them (descending for the natural
\* order), and Poll fails once that sequence is used up.
C15_SortIsDrain == [](SortShape) /\ [][PollFollowsSort]_vars

\* a Poll after a Sort() of a heap with a tie, two elements still to come
C15_Witness ==
    /\ op.name = "Poll" /\ ~ret.err
    /\ sorted.valid /\ Len(sorted.rest) >= 2
    /\ bh.cmp = "lived"
    /\ Tie(bh.data)

EmptyFails ==
    (op'.name \in {"Peek", "Poll"} /\ Len(bh.data) = 0) =>
        /\ ret' = [value |-> Zero(bh.cmp), err |-> TRUE]
        /\ bh' = bh

EmptyIsNew ==
    Len(bh.data) = 0 =>
        \A v \in Elems(bh.cmp) :
            Add(bh, v) = Add(NewBinaryHeapWithComparator(bh.cmp), v)

\* C16: on an empty heap Peek() and Poll() return the zero value and an
\* error, leave the heap empty, and a following Add behaves as on a new heap.
C16_EmptyFails == [](EmptyIsNew) /\ [][EmptyFails]_vars

\* Peek() failed on a heap with a custom comparator
C16_Witness ==
    /\ op.name = "Peek" /\ ret.err
    /\ bh.cmp # "natural"
    /\ net = 0

\* C17: sharing one heap between goroutines that call IsEmpty, Size, Peek,
\* Sort, Add, Poll and Clear never leads to a state in which every goroutine
\* is blocked on the heap's mutex (and so every call returns).
C17_DeadlockFree == ~(\A g \in Goroutines : Blocked(g))

\* the calls that have returned
Returned == {<<g, i>> \in Goroutines \X (1..MaxCalls) : i <= Len(log[g])}

\* number of returned Add(v) calls, and of Poll calls that returned v
Added(v) ==
    Cardinality({e \in Returned :
        log[e[1]][e[2]].call = "Add" /\ log[e[1]][e[2]].value = v})

Polled(v) ==
    Cardinality({e \in Returned :
        /\ log[e[1]][e[2]].call = "Poll"
        /\ ~log[e[1]][e[2]].err
        /\ log[e[1]][e[2]].value = v})

AllReturned == \A g \in Goroutines : pc[g] = "idle"

OnlyAddPoll == \A e \in Returned : log[e[1]][e[2]].call \in {"Add", "Poll"}

RECURSIVE SumOver(_, _)
SumOver(f(_), S) ==
    IF S = {} THEN 0
    ELSE LET x == CHOOSE y \in S : TRUE IN f(x) + SumOver(f, S \ {x})

\* C18: once all concurrent Add and Poll calls have returned, Size() is the
\* number of Adds minus the number of successful Polls, every added value is
\* either still stored or was returned by exactly one Poll, and the heap
\* property holds; no call panics on the way.
C18_AddPollAtomic ==
    /\ ~Crashed
    /\ (AllReturned /\ OnlyAddPoll) =>
           /\ HeapSize(bh) = SumOver(Added, Ints) - SumOver(Polled, Ints)
           /\ \A v \in Ints : Count(bh.data, v) + Polled(v) = Added(v)
           /\ HeapProperty(bh)

\* both goroutines have made all their calls, Adds and successful Polls among
\* them, both added and one polled, and two elements are left
C18_Witness ==
    /\ AllReturned /\ OnlyAddPoll
    /\ \A g \in Goroutines : Len(log[g]) = MaxCalls
    /\ \A g \in Goroutines : \E i \in 1..MaxCalls : log[g][i].call = "Add"
    /\ \E e \in Returned : log[e[1]][e[2]].call = "Poll" /\ ~log[e[1]][e[2]].err
    /\ HeapSize(bh) = 2

\* a Put and a Remove of one key have both returned: which of them took effect
\* last, and so whether the key is stored, is not told by the order of returns
PutRemoveOfOneKey ==
    \E g, h \in Goroutines : \E i \in 1..Len(log[g]), j \in 1..Len(log[h]) :
        /\ log[g][i].call = "Put" /\ log[h][j].call = "Remove"
        /\ log[g][i].key = log[h][j].key

\* C19: a TreeMap shared between goroutines behaves as if every call were
\* atomic: once concurrent Puts of distinct keys have all returned, every key
\* put is retrievable with its value, Size() is the number of stored keys,
\* the tree is a valid red-black tree and Keys() is ascending; no call panics.
C19_SharedPutsAtomic ==
    /\ ~panic
    /\ AllReturned =>
           /\ tm.root # Nil => tm.color[tm.root] = Black
           /\ NoRedRed(tm)
           /\ BlackHeight(tm, tm.root) >= 0
    /\ (AllReturned /\ ~PutRemoveOfOneKey) =>
           /\ \A k \in DOMAIN m : Get(tm, k) = [value |-> m[k], found |-> TRUE]
           /\ Size(tm) = Cardinality(DOMAIN m)
           /\ Keys(tm) = Ascending(StoredKeys)

\* the smallest element of a non-empty sequence of integers
SeqMin(seq) == CHOOSE x \in {seq[i] : i \in 1..Len(seq)} :
                   \A i \in 1..Len(seq) : x <= seq[i]

\* C20: after any sequence of Add and Poll calls on the min-heap the smallest
\* stored element is at index 0, so Peek() returns the minimum of the stored
\* elements and Poll() removes it.
C20_MinAtRoot ==
    Len(mh) > 0 =>
        /\ At(mh, 0) = SeqMin(mh)
        /\ minPeek(mh) = [value |-> SeqMin(mh), err |-> FALSE]
        /\ minPoll(mh).value = SeqMin(mh)

\* ========================================================= Stack machine
\* one caller; abs is the abstract list of the elements pushed and not popped
notStack == <<trieVars, treeVars, heapVars, minVars, procVars, queue, list, set>>

\* the values a Push at depth h may store
PushVals(h) == IF h < MaxFree THEN TVals ELSE {1 + (h % 2)}

NoValue == [value |-> ZeroT, ok |-> FALSE, err |-> FALSE]

Returns(r) == [value |-> r.value, ok |-> r.ok, err |-> r.err]

Front(seq) == SubSeq(seq, 1, Len(seq) - 1)

StackInit ==
    /\ stack = NewStack
    /\ abs = <<>>
    /\ crash = FALSE
    /\ op = [name |-> "NewStack", arg |-> ZeroT]
    /\ ret = NoValue
    /\ TreeIdle /\ HeapIdle /\ MinIdle /\ ProcIdle
    /\ QueueIdle /\ ListIdle /\ SetIdle /\ TrieIdle

PushCall ==
    /\ ~crash
    /\ Stack_Size(stack) < MaxStack
    /\ \E v \in PushVals(Stack_Size(stack)) :
        /\ stack' = Stack_Push(stack, v).s
        /\ crash' = Stack_Push(stack, v).panic
        /\ ret' = Returns(Stack_Push(stack, v))
        /\ abs' = Append(abs, v)
        /\ op' = [name |-> "Push", arg |-> v]
    /\ UNCHANGED notStack

PopCall ==
    /\ ~crash
    /\ stack' = Stack_Pop(stack).s
    /\ crash' = Stack_Pop(stack).panic
    /\ ret' = Returns(Stack_Pop(stack))
    /\ abs' = IF abs = <<>> THEN abs ELSE Front(abs)
    /\ op' = [name |-> "Pop", arg |-> ZeroT]
    /\ UNCHANGED notStack

StackPeekCall ==
    /\ ~crash
    /\ crash' = Stack_Peek(stack).panic
    /\ ret' = Returns(Stack_Peek(stack))
    /\ op' = [name |-> "Peek", arg |-> ZeroT]
    /\ UNCHANGED <<stack, abs, notStack>>

StackSizeCall ==
    /\ ~crash
    /\ ret' = [value |-> Stack_Size(stack), ok |-> FALSE, err |-> FALSE]
    /\ op' = [name |-> "Size", arg |-> ZeroT]
    /\ UNCHANGED <<stack, abs, crash, notStack>>

StackIsEmptyCall ==
    /\ ~crash
    /\ ret' = [value |-> ZeroT, ok |-> Stack_IsEmpty(stack), err |-> FALSE]
    /\ op' = [name |-> "IsEmpty", arg |-> ZeroT]
    /\ UNCHANGED <<stack, abs, crash, notStack>>

StackIsFullCall ==
    /\ ~crash
    /\ ret' = [value |-> ZeroT, ok |-> Stack_IsFull(stack), err |-> FALSE]
    /\ op' = [name |-> "IsFull", arg |-> ZeroT]
    /\ UNCHANGED <<stack, abs, crash, notStack>>

ValueAtCall ==
    /\ ~crash
    /\ \E pos \in {-1, 0, 1, stack.top, stack.top + 1} :
        /\ crash' = Stack_ValueAt(stack, pos).panic
        /\ ret' = Returns(Stack_ValueAt(stack, pos))
        /\ op' = [name |-> "ValueAt", arg |-> pos]
    /\ UNCHANGED <<stack, abs, notStack>>

StackClearCall ==
    /\ ~crash
    /\ stack' = Stack_Clear(stack)
    /\ abs' = <<>>
    /\ ret' = NoValue
    /\ op' = [name |-> "Clear", arg |-> ZeroT]
    /\ UNCHANGED <<crash, notStack>>

StackNext ==
    \/ PushCall
    \/ PopCall
    \/ StackPeekCall
    \/ StackSizeCall
    \/ StackIsEmptyCall
    \/ StackIsFullCall
    \/ ValueAtCall
    \/ StackClearCall

StackSpec == StackInit /\ [][StackNext]_vars

\* a stack whose slice has not been dropped by Clear
Allocated == Len(stack.data) > 0

\* the slice holds the abstract list, bottom first, and top points at its end
HoldsList ==
    /\ Stack_Size(stack) = Len(abs)
    /\ \A i \in 1..Len(abs) : stack.data[i] = abs[i]

\* Pop hands out the last element pushed and not yet popped
PopIsLast ==
    (PopCall /\ abs # <<>>) =>
        /\ ret' = [value |-> abs[Len(abs)], ok |-> FALSE, err |-> FALSE]
        /\ abs' = Front(abs)

\* Peek reports that element and changes nothing
PeekIsLast ==
    (StackPeekCall /\ abs # <<>>) =>
        /\ ret' = [value |-> abs[Len(abs)], ok |-> FALSE, err |-> FALSE]
        /\ stack' = stack

\* Size reports the length of the list
SizeIsLen == StackSizeCall => ret'.value = Len(abs)

\* C21: on a stack whose slice is allocated, Push and Pop behave as append and
\* remove-last on a list: the slice holds the list, Pop returns its last
\* element, Peek returns it without removing it and Size is its length, also
\* after the capacity has doubled
C21_StackIsList ==
    /\ [](Allocated => HoldsList)
    /\ [][Allocated => (PopIsLast /\ PeekIsLast /\ SizeIsLen)]_vars

\* the capacity has doubled twice and a Pop has returned an element stored
\* before the second doubling
C21_Witness ==
    /\ stack.cap = 4 * StackCap
    /\ op.name = "Pop"
    /\ ~ret.err
    /\ Stack_Size(stack) < 2 * StackCap
    /\ Stack_Size(stack) > StackCap

\* what Pop and Peek return on an empty stack: the zero value and an error
EmptyError(s) == StackResult(s, ZeroT, FALSE, TRUE, FALSE)

\* Push(v) then Pop() on s hands v back and leaves the stack as high as before
RoundTrips(s, v) ==
    /\ ~Stack_Push(s, v).panic
    /\ Stack_Push(s, v).ok
    /\ ~Stack_Push(s, v).err
    /\ ~Stack_Pop(Stack_Push(s, v).s).panic
    /\ ~Stack_Pop(Stack_Push(s, v).s).err
    /\ Stack_Pop(Stack_Push(s, v).s).value = v
    /\ Stack_Pop(Stack_Push(s, v).s).s.top = s.top

\* C22: on an empty stack Pop and Peek return the zero value and an error and
\* leave the stack unchanged: top stays -1, Size stays 0, and a Push/Pop pair
\* made after the failed call still round-trips
C22_EmptyPopPeek ==
    (Stack_IsEmpty(stack) /\ ~crash) =>
        /\ Stack_Pop(stack) = EmptyError(stack)
        /\ Stack_Peek(stack) = EmptyError(stack)
        /\ Stack_Size(Stack_Pop(stack).s) = 0
        /\ \A v \in TVals : RoundTrips(Stack_Pop(stack).s, v)
        /\ \A v \in TVals : RoundTrips(Stack_Peek(stack).s, v)

\* C23: after Clear the stack is a usable empty stack: Size is 0, IsEmpty is
\* true, Pop, Peek and ValueAt return an error, and a following Push(v)
\* returns (true, nil) and makes v the top
C23_ClearIsUsable ==
    (op.name = "Clear") =>
        /\ Stack_Size(stack) = 0
        /\ Stack_IsEmpty(stack)
        /\ Stack_Pop(stack).err
        /\ Stack_Peek(stack).err
        /\ Stack_ValueAt(stack, 0).err
        /\ \A v \in TVals :
            /\ ~Stack_Push(stack, v).panic
            /\ Stack_Push(stack, v).ok
            /\ ~Stack_Push(stack, v).err
            /\ Stack_Peek(Stack_Push(stack, v).s).value = v

\* ============================================ Stack shared by goroutines
\* src/stack/stack.go run by Goroutines, one statement per step. Push, Pop and
\* Clear hold s.lock for their whole body; Peek holds the read lock only inside
\* IsEmpty and then evaluates s.data[s.top] with no lock held, reading the two
\* fields one after the other in either order.
\* tops (per Peek in flight) collects every value that was the top of the
\* abstract list abs at some instant since the call began.
notStackRace == <<trieVars, treeVars, heapVars, minVars, queue, list, set, op, ret>>

StackCalls == {"Push", "Pop", "Clear", "Peek"}

NoStackCall == [call |-> "", val |-> ZeroT, top |-> 0, data |-> <<>>, tops |-> {}]

\* the top of the abstract list, if it has one
TopOf(seq) == IF seq = <<>> THEN {} ELSE {seq[Len(seq)]}

\* every Peek in flight has seen the tops of seq as well
Seen(seq) ==
    [g \in Goroutines |->
        IF local[g].call = "Peek"
        THEN [local[g] EXCEPT !.tops = @ \cup TopOf(seq)]
        ELSE local[g]]

StackRaceInit ==
    /\ stack = NewStack
    /\ abs = <<>>
    /\ crash = FALSE
    /\ mutex = [readers |-> [g \in Goroutines |-> 0], writer |-> 0, pending |-> {}]
    /\ pc = [g \in Goroutines |-> "idle"]
    /\ local = [g \in Goroutines |-> NoStackCall]
    /\ log = [g \in Goroutines |-> <<>>]
    /\ op = [name |-> "go"]
    /\ ret = NoValue
    /\ TreeIdle /\ HeapIdle /\ MinIdle
    /\ QueueIdle /\ ListIdle /\ SetIdle /\ TrieIdle

\* the call of g returns: its result is recorded, for a Peek with whether the
\* value was a top during the call
StackReturn(g, value, err) ==
    /\ log' = [log EXCEPT ![g] =
                 Append(@, [call |-> local[g].call, value |-> value, err |-> err,
                            wasTop |-> value \in local[g].tops])]
    /\ local' = [local EXCEPT ![g] = NoStackCall]
    /\ pc' = [pc EXCEPT ![g] = "idle"]

\* goroutine g calls method c; Peek starts in the RLock of IsEmpty
StackStart(g, c, v) ==
    /\ ~crash
    /\ pc[g] = "idle"
    /\ Len(log[g]) < MaxCalls
    /\ local' = [local EXCEPT ![g] = [call |-> c, val |-> v, top |-> 0,
                                      data |-> <<>>, tops |-> TopOf(abs)]]
    /\ pc' = [pc EXCEPT ![g] = IF c = "Peek" THEN "RLock" ELSE "Lock"]
    /\ mutex' = IF c = "Peek" THEN mutex
                ELSE [mutex EXCEPT !.pending = @ \cup {g}]
    /\ UNCHANGED <<stack, abs, crash, log, notStackRace>>

\* IsEmpty: s.lock.RLock()
StackRLockStep(g) ==
    /\ ~crash
    /\ pc[g] = "RLock"
    /\ CanRLock(mutex)
    /\ mutex' = [mutex EXCEPT !.readers[g] = @ + 1]
    /\ pc' = [pc EXCEPT ![g] = "isEmpty"]
    /\ UNCHANGED <<stack, abs, crash, local, log, notStackRace>>

\* IsEmpty: return s.top == -1, the deferred RUnlock, and Peek's test of it
IsEmptyStep(g) ==
    /\ ~crash
    /\ pc[g] = "isEmpty"
    /\ mutex' = RUnlock(mutex, g)
    /\ IF Stack_IsEmpty(stack)
       THEN StackReturn(g, ZeroT, TRUE)
       ELSE /\ pc' = [pc EXCEPT ![g] = "index"]
            /\ UNCHANGED <<local, log>>
    /\ UNCHANGED <<stack, abs, crash, notStackRace>>

\* Peek: the first operand of s.data[s.top] is read, s.top or s.data
PeekOperandStep(g) ==
    /\ ~crash
    /\ pc[g] = "index"
    /\ \/ /\ local' = [local EXCEPT ![g].top = stack.top]
          /\ pc' = [pc EXCEPT ![g] = "readData"]
       \/ /\ local' = [local EXCEPT ![g].data = stack.data]
          /\ pc' = [pc EXCEPT ![g] = "readTop"]
    /\ UNCHANGED <<stack, abs, crash, mutex, log, notStackRace>>

\* indexing slice data at i: the element, or a panic when i is out of range
IndexOrPanic(g, data, i) ==
    IF i < 0 \/ i >= Len(data)
    THEN /\ crash' = TRUE
         /\ pc' = [pc EXCEPT ![g] = "panic"]
         /\ UNCHANGED <<local, log>>
    ELSE /\ crash' = crash
         /\ StackReturn(g, data[i + 1], FALSE)

\* Peek: the other operand is read, the slice is indexed, the call returns
PeekIndexStep(g) ==
    /\ ~crash
    /\ \/ pc[g] = "readData" /\ IndexOrPanic(g, stack.data, local[g].top)
       \/ pc[g] = "readTop" /\ IndexOrPanic(g, local[g].data, stack.top)
    /\ UNCHANGED <<stack, abs, mutex, notStackRace>>

\* Push, Pop, Clear: s.lock.Lock() returns
StackLockStep(g) ==
    /\ ~crash
    /\ pc[g] = "Lock"
    /\ CanLock(mutex)
    /\ mutex' = [mutex EXCEPT !.writer = g, !.pending = @ \ {g}]
    /\ pc' = [pc EXCEPT ![g] = CASE local[g].call = "Push" -> "inc"
                                 [] local[g].call = "Pop" -> "pop"
                                 [] local[g].call = "Clear" -> "top"]
    /\ UNCHANGED <<stack, abs, crash, local, log, notStackRace>>

\* Push: if s.top == s.cap-1 { s.increaseSize() }; s.top++
IncStep(g) ==
    /\ ~crash
    /\ pc[g] = "inc"
    /\ stack' = [Stack_grow(stack) EXCEPT !.top = stack.top + 1]
    /\ abs' = Append(abs, local[g].val)
    /\ local' = Seen(Append(abs, local[g].val))
    /\ pc' = [pc EXCEPT ![g] = "store"]
    /\ UNCHANGED <<crash, mutex, log, notStackRace>>

\* Push: s.data[s.top] = val; return true, nil; the deferred Unlock
StoreStep(g) ==
    /\ ~crash
    /\ pc[g] = "store"
    /\ IF stack.top >= Len(stack.data)
       THEN /\ crash' = TRUE
            /\ pc' = [pc EXCEPT ![g] = "panic"]
            /\ UNCHANGED <<stack, mutex, local, log>>
       ELSE /\ stack' = [stack EXCEPT !.data[stack.top + 1] = local[g].val]
            /\ mutex' = Unlock(mutex, g)
            /\ StackReturn(g, ZeroT, FALSE)
            /\ crash' = crash
    /\ UNCHANGED <<abs, notStackRace>>

\* Pop: the whole body under the lock, and the deferred Unlock
PopStep(g) ==
    /\ ~crash
    /\ pc[g] = "pop"
    /\ IF Stack_Pop(stack).panic
       THEN /\ crash' = TRUE
            /\ pc' = [pc EXCEPT ![g] = "panic"]
            /\ UNCHANGED <<stack, abs, mutex, local, log>>
       ELSE /\ stack' = Stack_Pop(stack).s
            /\ abs' = IF abs = <<>> THEN abs ELSE Front(abs)
            /\ mutex' = Unlock(mutex, g)
            /\ log' = [log EXCEPT ![g] =
                         Append(@, [call |-> "Pop",
                                    value |-> Stack_Pop(stack).value,
                                    err |-> Stack_Pop(stack).err,
                                    wasTop |-> Stack_Pop(stack).value \in TopOf(abs)])]
            /\ local' = [Seen(IF abs = <<>> THEN abs ELSE Front(abs))
                            EXCEPT ![g] = NoStackCall]
            /\ pc' = [pc EXCEPT ![g] = "idle"]
            /\ crash' = crash
    /\ UNCHANGED notStackRace

\* Clear: s.top = -1
ClearTopStep(g) ==
    /\ ~crash
    /\ pc[g] = "top"
    /\ stack' = [stack EXCEPT !.top = -1]
    /\ abs' = <<>>
    /\ pc' = [pc EXCEPT ![g] = "data"]
    /\ UNCHANGED <<crash, mutex, local, log, notStackRace>>

\* Clear: s.data = nil; the deferred Unlock
ClearDataStep(g) ==
    /\ ~crash
    /\ pc[g] = "data"
    /\ stack' = [stack EXCEPT !.data = <<>>]
    /\ mutex' = Unlock(mutex, g)
    /\ StackReturn(g, ZeroT, FALSE)
    /\ UNCHANGED <<abs, crash, notStackRace>>

StackRaceNext ==
    \E g \in Goroutines :
        \/ \E c \in StackCalls : \E v \in TVals :
              StackStart(g, c, IF c = "Push" THEN v ELSE ZeroT)
        \/ StackRLockStep(g)
        \/ IsEmptyStep(g)
        \/ PeekOperandStep(g)
        \/ PeekIndexStep(g)
        \/ StackLockStep(g)
        \/ IncStep(g)
        \/ StoreStep(g)
        \/ PopStep(g)
        \/ ClearTopStep(g)
        \/ ClearDataStep(g)

StackRaceSpec == StackRaceInit /\ [][StackRaceNext]_vars

\* C24: the stack is safe for concurrent use: a Peek that runs while other
\* goroutines Push, Pop or Clear never indexes the slice out of range, and it
\* returns either an error or a value that was the top at some instant of
\* the call
C24_PeekIsSafe ==
    /\ \A g \in Goroutines : pc[g] = "panic" => local[g].call # "Peek"
    /\ \A g \in Goroutines : \A i \in 1..Len(log[g]) :
          (log[g][i].call = "Peek" /\ ~log[g][i].err) => log[g][i].wasTop

\* ========================================================= Queue machine
\* one caller; abs is the abstract list of the elements enqueued and not yet
\* dequeued, oldest first
notQueue == <<trieVars, treeVars, heapVars, minVars, procVars, stack, list, set, crash>>

\* the values an Enqueue may store: free while the queue is short, fixed by
\* the position rear otherwise
EnqueueVals(q) == IF q.count < MaxFirst THEN TVals ELSE {1 + (q.rear % 2)}

QueueInit ==
    /\ queue = NewQueue
    /\ abs = <<>>
    /\ crash = FALSE
    /\ op = [name |-> "NewQueue", grew |-> FALSE, from |-> 0, n |-> 0, c |-> 0]
    /\ ret = NoValue
    /\ TreeIdle /\ HeapIdle /\ MinIdle /\ ProcIdle
    /\ StackIdle /\ ListIdle /\ SetIdle /\ TrieIdle

\* a call that is not an Enqueue; n counts the Enqueue calls and c the Clear
\* calls made so far
QueueOp(name) ==
    [name |-> name, grew |-> FALSE, from |-> 0, n |-> op.n,
     c |-> IF name = "Clear" THEN op.c + 1 ELSE op.c]

\* op records whether the Enqueue resized the queue and where front was
EnqueueCall ==
    /\ op.n < MaxEnqueue
    /\ \E v \in EnqueueVals(queue) :
        /\ queue' = Queue_Enqueue(queue, v)
        /\ abs' = Append(abs, v)
    /\ ret' = NoValue
    /\ op' = [name |-> "Enqueue", grew |-> queue.count = queue.cap,
              from |-> queue.front, n |-> op.n + 1, c |-> op.c]
    /\ UNCHANGED notQueue

DequeueCall ==
    /\ queue' = Queue_Dequeue(queue).q
    /\ ret' = [value |-> Queue_Dequeue(queue).value, ok |-> FALSE,
               err |-> Queue_Dequeue(queue).err]
    /\ abs' = IF abs = <<>> THEN abs ELSE Tail(abs)
    /\ op' = QueueOp("Dequeue")
    /\ UNCHANGED notQueue

QueuePeekCall ==
    /\ ret' = [value |-> Queue_Peek(queue).value, ok |-> FALSE,
               err |-> Queue_Peek(queue).err]
    /\ op' = QueueOp("Peek")
    /\ UNCHANGED <<queue, abs, notQueue>>

QueueSizeCall ==
    /\ ret' = [value |-> Queue_Size(queue), ok |-> FALSE, err |-> FALSE]
    /\ op' = QueueOp("Size")
    /\ UNCHANGED <<queue, abs, notQueue>>

QueueIsEmptyCall ==
    /\ ret' = [value |-> ZeroT, ok |-> Queue_IsEmpty(queue), err |-> FALSE]
    /\ op' = QueueOp("IsEmpty")
    /\ UNCHANGED <<queue, abs, notQueue>>

QueueIsFullCall ==
    /\ ret' = [value |-> ZeroT, ok |-> Queue_IsFull(queue), err |-> FALSE]
    /\ op' = QueueOp("IsFull")
    /\ UNCHANGED <<queue, abs, notQueue>>

QueueClearCall ==
    /\ op.c < MaxClear
    /\ queue' = Queue_Clear(queue)
    /\ abs' = <<>>
    /\ ret' = NoValue
    /\ op' = QueueOp("Clear")
    /\ UNCHANGED notQueue

ToArrayCall ==
    /\ ret' = [value |-> Queue_ToArray(queue), ok |-> FALSE, err |-> FALSE]
    /\ op' = QueueOp("ToArray")
    /\ UNCHANGED <<queue, abs, notQueue>>

\* Iterator() followed by Next() until it returns false
IteratorCall ==
    /\ ret' = [value |-> Iterator_drain(Queue_Iterator(queue)), ok |-> FALSE,
               err |-> FALSE]
    /\ op' = QueueOp("Iterator")
    /\ UNCHANGED <<queue, abs, notQueue>>

QueueNext ==
    \/ EnqueueCall
    \/ DequeueCall
    \/ QueuePeekCall
    \/ QueueSizeCall
    \/ QueueIsEmptyCall
    \/ QueueIsFullCall
    \/ QueueClearCall
    \/ ToArrayCall
    \/ IteratorCall

QueueSpec == QueueInit /\ [][QueueNext]_vars

\* the ring holds the abstract list, oldest first
RingIsList ==
    /\ Queue_ToArray(queue) = abs
    /\ Queue_Size(queue) = Len(abs)
    /\ Queue_IsEmpty(queue) <=> abs = <<>>

\* Dequeue hands out the oldest element
DequeueIsHead ==
    (op'.name = "Dequeue" /\ abs # <<>>) =>
        ret' = [value |-> Head(abs), ok |-> FALSE, err |-> FALSE]

\* on the empty queue Dequeue and Peek fail and change nothing
EmptyQueueFails ==
    (op'.name \in {"Dequeue", "Peek"} /\ abs = <<>>) =>
        /\ ret' = [value |-> ZeroT, ok |-> FALSE, err |-> TRUE]
        /\ queue' = queue

\* Peek reports the oldest element and changes nothing
QueuePeekIsHead ==
    (op'.name = "Peek" /\ abs # <<>>) =>
        /\ ret' = [value |-> Head(abs), ok |-> FALSE, err |-> FALSE]
        /\ queue' = queue

\* ToArray and Size report the list and its length
ReportsList ==
    /\ op'.name = "ToArray" => ret'.value = abs
    /\ op'.name = "Size" => ret'.value = Len(abs)

\* C25: Enqueue, Dequeue and Clear behave as append, remove-first and reset on
\* a list: ToArray is the list, Size its length, Dequeue and Peek return its
\* oldest element, also when the ring has wrapped around and when it is
\* resized at full capacity
C25_QueueIsList ==
    /\ []RingIsList
    /\ [][DequeueIsHead /\ QueuePeekIsHead /\ EmptyQueueFails /\ ReportsList]_vars

\* the queue was full with front past slot 0, so the ring had wrapped, and the
\* Enqueue resized it
C25_Witness ==
    /\ op.name = "Enqueue"
    /\ op.grew
    /\ op.from > 0
    /\ queue.cap = 2 * QueueCap
    /\ Len(abs) = QueueCap + 1

\* C26: Iterator() is a snapshot in FIFO order: the values of successive Next()
\* calls are the elements in the queue, oldest first, as ToArray() gives them
C26_IteratorIsFIFO ==
    /\ Iterator_drain(Queue_Iterator(queue)) = Queue_ToArray(queue)
    /\ op.name = "Iterator" => ret.value = abs

\* C27: Clear removes all elements (Size 0, Peek and Dequeue fail) and leaves
\* the capacity as it was, whatever it had grown to
C27_ClearKeepsCap ==
    /\ Queue_Size(Queue_Clear(queue)) = 0
    /\ Queue_Peek(Queue_Clear(queue)).err
    /\ Queue_Dequeue(Queue_Clear(queue)).err
    /\ Queue_Clear(queue).cap = queue.cap

\* ============================================== DoublyLinkedList machine
\* one caller; abs is the abstract sequence; after every call the nodes the
\* list no longer leads to are reclaimed
notList == <<trieVars, treeVars, heapVars, minVars, procVars, stack, queue, set>>

ListReturns(r) == [value |-> r.value, ok |-> r.ok, err |-> r.err]

\* seq with v inserted so that it gets index i (from 0)
InsertAt(seq, i, v) == SubSeq(seq, 1, i) \o <<v>> \o SubSeq(seq, i + 1, Len(seq))

\* seq without the element of index i (from 0)
RemoveIndex(seq, i) == SubSeq(seq, 1, i) \o SubSeq(seq, i + 2, Len(seq))

\* index (from 0) of the first occurrence of v in seq, -1 when there is none
FirstIndex(seq, v) ==
    IF \E i \in 1..Len(seq) : seq[i] = v
    THEN (CHOOSE i \in 1..Len(seq) :
            seq[i] = v /\ \A j \in 1..(i - 1) : seq[j] # v) - 1
    ELSE -1

ListInit ==
    /\ list = NewLinkedList
    /\ abs = <<>>
    /\ crash = FALSE
    /\ op = [name |-> "NewLinkedList", idx |-> 0, elem |-> ZeroT]
    /\ ret = [value |-> ZeroT, ok |-> FALSE, err |-> NoErr]
    /\ TreeIdle /\ HeapIdle /\ MinIdle /\ ProcIdle
    /\ StackIdle /\ QueueIdle /\ SetIdle /\ TrieIdle

\* the call named name with arguments idx and elem returned r
ListCalled(name, idx, elem, r) ==
    /\ list' = List_collect(r.l, {})
    /\ crash' = r.panic
    /\ ret' = ListReturns(r)
    /\ op' = [name |-> name, idx |-> idx, elem |-> elem]
    /\ UNCHANGED notList

AddFirstCall ==
    /\ ~crash
    /\ list.size < MaxList
    /\ \E v \in TVals :
        /\ ListCalled("AddFirst", 0, v, List_AddFirst(list, v))
        /\ abs' = <<v>> \o abs

AddLastCall ==
    /\ ~crash
    /\ list.size < MaxList
    /\ \E v \in TVals :
        /\ ListCalled("AddLast", 0, v, List_AddLast(list, v))
        /\ abs' = Append(abs, v)

AddAtCall ==
    /\ ~crash
    /\ list.size < MaxList
    /\ \E v \in TVals : \E i \in -1..(list.size + 1) :
        /\ ListCalled("AddAt", i, v, List_AddAt(list, i, v))
        /\ abs' = IF i >= 0 /\ i <= Len(abs) THEN InsertAt(abs, i, v) ELSE abs

RemoveFirstCall ==
    /\ ~crash
    /\ ListCalled("RemoveFirst", 0, ZeroT, List_RemoveFirst(list))
    /\ abs' = IF abs = <<>> THEN abs ELSE Tail(abs)

RemoveLastCall ==
    /\ ~crash
    /\ ListCalled("RemoveLast", 0, ZeroT, List_RemoveLast(list))
    /\ abs' = IF abs = <<>> THEN abs ELSE Front(abs)

RemoveAtCall ==
    /\ ~crash
    /\ \E i \in -1..list.size :
        /\ ListCalled("RemoveAt", i, ZeroT, List_RemoveAt(list, i))
        /\ abs' = IF i >= 0 /\ i < Len(abs) THEN RemoveIndex(abs, i) ELSE abs

ListRemoveCall ==
    /\ ~crash
    /\ \E v \in TVals :
        /\ ListCalled("Remove", 0, v, List_Remove(list, v))
        /\ abs' = IF FirstIndex(abs, v) >= 0
                  THEN RemoveIndex(abs, FirstIndex(abs, v)) ELSE abs

IterateCall ==
    /\ ~crash
    /\ ret' = [value |-> List_Iterate(list), ok |-> TRUE, err |-> NoErr]
    /\ op' = [name |-> "Iterate", idx |-> 0, elem |-> ZeroT]
    /\ UNCHANGED <<list, abs, crash, notList>>

ListPeekCall ==
    /\ ~crash
    /\ \/ ListCalled("PeekFirst", 0, ZeroT, List_PeekFirst(list))
       \/ ListCalled("PeekLast", 0, ZeroT, List_PeekLast(list))
    /\ abs' = abs

ListContainsCall ==
    /\ ~crash
    /\ \E v \in TVals :
        ListCalled("Contains", 0, v, List_Contains(list, v))
    /\ abs' = abs

ListSizeCall ==
    /\ ~crash
    /\ ret' = [value |-> List_Size(list), ok |-> List_IsEmpty(list), err |-> NoErr]
    /\ op' = [name |-> "Size", idx |-> 0, elem |-> ZeroT]
    /\ UNCHANGED <<list, abs, crash, notList>>

ListClearCall ==
    /\ ~crash
    /\ list' = List_collect(List_Clear(list), {})
    /\ abs' = <<>>
    /\ ret' = [value |-> ZeroT, ok |-> FALSE, err |-> NoErr]
    /\ op' = [name |-> "Clear", idx |-> 0, elem |-> ZeroT]
    /\ UNCHANGED <<crash, notList>>

ListNext ==
    \/ AddFirstCall
    \/ AddLastCall
    \/ AddAtCall
    \/ RemoveFirstCall
    \/ RemoveLastCall
    \/ RemoveAtCall
    \/ ListRemoveCall
    \/ IterateCall
    \/ ListPeekCall
    \/ ListContainsCall
    \/ ListSizeCall
    \/ ListClearCall

ListSpec == ListInit /\ [][ListNext]_vars

Reverse(seq) == [i \in 1..Len(seq) |-> seq[Len(seq) + 1 - i]]

\* prev and next agree: the walk back from the tail is the walk from the head
\* reversed, and size counts the linked nodes
WellFormed(l) ==
    /\ List_backward(l) = Reverse(List_forward(l))
    /\ l.size = Len(List_forward(l))
    /\ l.head # Nil => l.prev[l.head] = Nil
    /\ l.tail # Nil => l.next[l.tail] = Nil

\* the linked nodes hold the abstract sequence, head to tail
ListIsSeq ==
    /\ ~crash
    /\ WellFormed(list)
    /\ List_Iterate(list) = abs
    /\ List_Size(list) = Len(abs)

\* a call that removes returns the element it removed
RemovedReturned ==
    /\ (op'.name = "RemoveFirst" /\ abs # <<>>) =>
          ret' = [value |-> Head(abs), ok |-> TRUE, err |-> NoErr]
    /\ (op'.name = "RemoveLast" /\ abs # <<>>) =>
          ret' = [value |-> abs[Len(abs)], ok |-> TRUE, err |-> NoErr]
    /\ (op'.name = "RemoveAt" /\ op'.idx >= 0 /\ op'.idx < Len(abs)) =>
          ret' = [value |-> abs[op'.idx + 1], ok |-> TRUE, err |-> NoErr]
    /\ (op'.name = "Remove" /\ FirstIndex(abs, op'.elem) >= 0) =>
          ret' = [value |-> op'.elem, ok |-> TRUE, err |-> NoErr]

\* an invalid index, an absent value and an empty list are reported and the
\* list is left as it was
ErrorsKeepList ==
    /\ (op'.name = "AddAt" /\ (op'.idx < 0 \/ op'.idx > Len(abs))) =>
          ret'.err = "invalid index" /\ list' = list
    /\ (op'.name = "RemoveAt" /\ (op'.idx < 0 \/ op'.idx >= Len(abs))) =>
          ret'.err = "invalid index" /\ list' = list
    /\ (op'.name = "Remove" /\ abs # <<>> /\ FirstIndex(abs, op'.elem) < 0) =>
          ret'.err = "value not found" /\ list' = list
    /\ (op'.name \in {"Remove", "RemoveFirst", "RemoveLast"} /\ abs = <<>>) =>
          ret'.err = "linked list empty" /\ list' = list

\* a successful Add reports (true, nil) and Iterate yields the sequence
AddsAndIterate ==
    /\ (op'.name \in {"AddFirst", "AddLast"}) => ret'.ok /\ ret'.err = NoErr
    /\ (op'.name = "AddAt" /\ op'.idx >= 0 /\ op'.idx <= Len(abs)) =>
          ret'.ok /\ ret'.err = NoErr
    /\ op'.name = "Iterate" => ret'.value = abs

\* C28: AddFirst, AddLast, AddAt, RemoveFirst, RemoveLast, RemoveAt and Remove
\* have the effect of the sequence operations: the linked nodes always hold
\* the abstract sequence, removals return the removed element, an invalid
\* index, an absent value or an empty list is reported without changing the
\* list, and Iterate yields the contents head to tail
C28_ListIsSeq ==
    /\ []ListIsSeq
    /\ [][RemovedReturned /\ ErrorsKeepList /\ AddsAndIterate]_vars

\* RemoveAt has taken the inner element of index 2 out of a list of MaxList
\* elements, reached by walking back from the tail
C28_Witness ==
    /\ op.name = "RemoveAt"
    /\ op.idx = 2
    /\ ret.err = NoErr
    /\ Len(abs) = MaxList - 1
    /\ abs[1] # abs[2]

\* ================================= DoublyLinkedList shared by goroutines
\* src/linkedlist/linked_list.go run by Goroutines. A step of a goroutine is
\* one read or one write of a field of the list or of a node, with the tests
\* and the assignments to local variables that follow it; the program points
\* are named by method and source line. AddFirst, AddLast, RemoveFirst and
\* RemoveLast hold dl.mutex for their whole body; AddAt, Remove, RemoveAt and
\* removeNode take no lock, so their steps fall between the steps of the other
\* goroutine, those made under the lock included.
notListRace == <<trieVars, treeVars, heapVars, minVars, stack, queue, set, abs, op, ret>>

LockedCalls == {"AddFirst", "AddLast", "RemoveFirst", "RemoveLast"}

\* temp, node, a, b: the pointers the call holds; i: its loop counter; sz: the
\* size it has read; err: what the locked method returns after its Unlock
NoListCall ==
    [call |-> "", body |-> "", idx |-> 0, elem |-> ZeroT, temp |-> Nil,
     node |-> Nil, a |-> Nil, b |-> Nil, i |-> 0, sz |-> 0, err |-> ""]

\* the list the goroutines share: built by AddLast(1), AddLast(2), AddLast(1)
SharedList == List_AddLast(List_AddLast(List_AddLast(NewLinkedList, 1).l, 2).l, 1).l

\* address of a node built during the run: one no node was built at before
\* (every node built holds a value other than the zero value)
List_new(l) == Lowest({n \in ListIds : l.val[n] = ZeroT})

ListRaceInit ==
    /\ list = SharedList
    /\ abs = <<>>
    /\ crash = FALSE
    /\ mutex = [readers |-> [g \in Goroutines |-> 0], writer |-> 0, pending |-> {}]
    /\ pc = [g \in Goroutines |-> "idle"]
    /\ local = [g \in Goroutines |-> NoListCall]
    /\ log = [g \in Goroutines |-> <<>>]
    /\ op = [name |-> "go"]
    /\ ret = NoValue
    /\ TreeIdle /\ HeapIdle /\ MinIdle
    /\ StackIdle /\ QueueIdle /\ SetIdle /\ TrieIdle

\* the first program point of a method
ListEntry(c) ==
    CASE c = "AddAt" -> "AddAt158"
      [] c = "Remove" -> "Remove262"
      [] c = "RemoveAt" -> "RemoveAt277"
      [] c = "AddLast" -> "AddLast123"
      [] c = "AddFirst" -> "AddFirst140"
      [] c = "RemoveFirst" -> "RemoveFirst209"
      [] c = "RemoveLast" -> "RemoveLast228"

\* goroutine g calls method c
ListStart(g, c, idx, elem) ==
    /\ ~crash
    /\ pc[g] = "idle"
    /\ Len(log[g]) < MaxListCalls
    /\ local' = [local EXCEPT ![g] = [NoListCall EXCEPT !.call = c, !.body = c,
                                                         !.idx = idx, !.elem = elem]]
    /\ pc' = [pc EXCEPT ![g] = IF c \in LockedCalls THEN "Lock" ELSE ListEntry(c)]
    /\ mutex' = IF c \in LockedCalls
                THEN [mutex EXCEPT !.pending = @ \cup {g}]
                ELSE mutex
    /\ UNCHANGED <<list, crash, log, notListRace>>

\* dl.mutex.Lock() returns
ListLockStep(g) ==
    /\ ~crash
    /\ pc[g] = "Lock"
    /\ CanLock(mutex)
    /\ mutex' = [mutex EXCEPT !.writer = g, !.pending = @ \ {g}]
    /\ pc' = [pc EXCEPT ![g] = ListEntry(local[g].body)]
    /\ UNCHANGED <<list, crash, local, log, notListRace>>

\* the deferred dl.mutex.Unlock() and the return of the locked method
ListUnlockStep(g) ==
    /\ ~crash
    /\ pc[g] = "Unlock"
    /\ mutex' = Unlock(mutex, g)
    /\ log' = [log EXCEPT ![g] = Append(@, [call |-> local[g].call,
                                            err |-> local[g].err])]
    /\ local' = [local EXCEPT ![g] = NoListCall]
    /\ pc' = [pc EXCEPT ![g] = "idle"]
    /\ UNCHANGED <<list, crash, notListRace>>

\* what a step makes of the list l and the locals r, and where it goes on:
\* at a program point, in a panic (a nil pointer is dereferenced), in the
\* return of an unlocked method, in the Lock() of the locked method it calls,
\* or in the deferred Unlock() of a locked method
ListGoto(l, r, p) == [l |-> l, r |-> r, pc |-> p, err |-> NoErr]
ListPanics(l, r) == ListGoto(l, r, "panic")
ListDone(l, r, err) == [l |-> l, r |-> r, pc |-> "return", err |-> err]
ListCalls(l, r, name) == ListGoto(l, [r EXCEPT !.body = name], "Lock")
ListLeaves(l, r, err) == ListGoto(l, [r EXCEPT !.err = err], "Unlock")

\* AddAt(idx, elem), lines 158-176
AddAt_at(l, r, p) ==
    CASE p = "AddAt158" ->        \* if idx < 0 || idx > dl.size; if idx == 0
            IF r.idx < 0 \/ r.idx > l.size THEN ListDone(l, r, "invalid index")
            ELSE IF r.idx = 0 THEN ListCalls(l, r, "AddFirst")
            ELSE ListGoto(l, r, "AddAt164")
      [] p = "AddAt164" ->        \* if idx == dl.size
            IF r.idx = l.size THEN ListCalls(l, r, "AddLast")
            ELSE ListGoto(l, r, "AddAt167")
      [] p = "AddAt167" ->        \* temp := dl.head; i := 0; i < idx-1
            ListGoto(l, [r EXCEPT !.temp = l.head, !.i = 0],
                     IF 0 < r.idx - 1 THEN "AddAt170" ELSE "AddAt172")
      [] p = "AddAt170" ->        \* temp = temp.next; i++; i < idx-1
            IF r.temp = Nil THEN ListPanics(l, r)
            ELSE ListGoto(l, [r EXCEPT !.temp = l.next[r.temp], !.i = r.i + 1],
                          IF r.i + 1 < r.idx - 1 THEN "AddAt170" ELSE "AddAt172")
      [] p = "AddAt172" ->        \* node := NewListNode(elem, temp, temp.next)
            IF r.temp = Nil THEN ListPanics(l, r)
            ELSE ListGoto(NewListNode(l, List_new(l), r.elem, r.temp, l.next[r.temp]),
                          [r EXCEPT !.node = List_new(l)], "AddAt173")
      [] p = "AddAt173" ->        \* temp.next = node
            ListGoto([l EXCEPT !.next[r.temp] = r.node], r, "AddAt174")
      [] p = "AddAt174" ->        \* node.next.prev = node: node.next is read
            ListGoto(l, [r EXCEPT !.a = l.next[r.node]], "AddAt174w")
      [] p = "AddAt174w" ->       \* ... and its prev is written
            IF r.a = Nil THEN ListPanics(l, r)
            ELSE ListGoto([l EXCEPT !.prev[r.a] = r.node], r, "AddAt175")
      [] p = "AddAt175" ->        \* dl.size++: dl.size is read
            ListGoto(l, [r EXCEPT !.sz = l.size], "AddAt175w")
      [] p = "AddAt175w" ->       \* ... and written; return true, nil
            ListDone([l EXCEPT !.size = r.sz + 1], r, NoErr)

\* the body of AddLast(elem), lines 123-133
AddLast_at(l, r, p) ==
    CASE p = "AddLast123" ->      \* if dl.size == 0; NewListNode(elem, nil, nil)
            IF l.size = 0
            THEN ListGoto(NewListNode(l, List_new(l), r.elem, Nil, Nil),
                          [r EXCEPT !.node = List_new(l)], "AddLast125")
            ELSE ListGoto(l, r, "AddLast128")
      [] p = "AddLast125" ->      \* dl.head = node
            ListGoto([l EXCEPT !.head = r.node], r, "AddLast126")
      [] p = "AddLast126" ->      \* dl.tail = node
            ListGoto([l EXCEPT !.tail = r.node], r, "AddLast132")
      [] p = "AddLast128" ->      \* node := NewListNode(elem, dl.tail, nil)
            ListGoto(NewListNode(l, List_new(l), r.elem, l.tail, Nil),
                     [r EXCEPT !.node = List_new(l)], "AddLast129")
      [] p = "AddLast129" ->      \* dl.tail.next = node: dl.tail is read
            ListGoto(l, [r EXCEPT !.a = l.tail], "AddLast129w")
      [] p = "AddLast129w" ->     \* ... and its next is written
            IF r.a = Nil THEN ListPanics(l, r)
            ELSE ListGoto([l EXCEPT !.next[r.a] = r.node], r, "AddLast130")
      [] p = "AddLast130" ->      \* dl.tail = dl.tail.next: dl.tail is read
            ListGoto(l, [r EXCEPT !.a = l.tail], "AddLast130n")
      [] p = "AddLast130n" ->     \* ... its next is read
            IF r.a = Nil THEN ListPanics(l, r)
            ELSE ListGoto(l, [r EXCEPT !.a = l.next[r.a]], "AddLast130w")
      [] p = "AddLast130w" ->     \* ... and dl.tail is written
            ListGoto([l EXCEPT !.tail = r.a], r, "AddLast132")
      [] p = "AddLast132" ->      \* dl.size++: dl.size is read
            ListGoto(l, [r EXCEPT !.sz = l.size], "AddLast132w")
      [] p = "AddLast132w" ->     \* ... and written; return true, nil
            ListLeaves([l EXCEPT !.size = r.sz + 1], r, NoErr)

\* the body of AddFirst(elem), lines 140-150
AddFirst_at(l, r, p) ==
    CASE p = "AddFirst140" ->     \* if dl.size == 0; NewListNode(elem, nil, nil)
            IF l.size = 0
            THEN ListGoto(NewListNode(l, List_new(l), r.elem, Nil, Nil),
                          [r EXCEPT !.node = List_new(l)], "AddFirst142")
            ELSE ListGoto(l, r, "AddFirst145")
      [] p = "AddFirst142" ->     \* dl.head = node
            ListGoto([l EXCEPT !.head = r.node], r, "AddFirst143")
      [] p = "AddFirst143" ->     \* dl.tail = node
            ListGoto([l EXCEPT !.tail = r.node], r, "AddFirst149")
      [] p = "AddFirst145" ->     \* node := NewListNode(elem, nil, dl.head)
            ListGoto(NewListNode(l, List_new(l), r.elem, Nil, l.head),
                     [r EXCEPT !.node = List_new(l)], "AddFirst146")
      [] p = "AddFirst146" ->     \* dl.head.prev = node: dl.head is read
            ListGoto(l, [r EXCEPT !.a = l.head], "AddFirst146w")
      [] p = "AddFirst146w" ->    \* ... and its prev is written
            IF r.a = Nil THEN ListPanics(l, r)
            ELSE ListGoto([l EXCEPT !.prev[r.a] = r.node], r, "AddFirst147")
      [] p = "AddFirst147" ->     \* dl.head = dl.head.prev: dl.head is read
            ListGoto(l, [r EXCEPT !.a = l.head], "AddFirst147p")
      [] p = "AddFirst147p" ->    \* ... its prev is read
            IF r.a = Nil THEN ListPanics(l, r)
            ELSE ListGoto(l, [r EXCEPT !.a = l.prev[r.a]], "AddFirst147w")
      [] p = "AddFirst147w" ->    \* ... and dl.head is written
            ListGoto([l EXCEPT !.head = r.a], r, "AddFirst149")
      [] p = "AddFirst149" ->     \* dl.size++: dl.size is read
            ListGoto(l, [r EXCEPT !.sz = l.size], "AddFirst149w")
      [] p = "AddFirst149w" ->    \* ... and written; return true, nil
            ListLeaves([l EXCEPT !.size = r.sz + 1], r, NoErr)

\* the body of RemoveFirst(), lines 209-220
RemoveFirst_at(l, r, p) ==
    CASE p = "RemoveFirst209" ->  \* if dl.size == 0
            IF l.size = 0 THEN ListLeaves(l, r, "linked list empty")
            ELSE ListGoto(l, r, "RemoveFirst212")
      [] p = "RemoveFirst212" ->  \* value := dl.head.val
            IF l.head = Nil THEN ListPanics(l, r)
            ELSE ListGoto(l, r, "RemoveFirst213")
      [] p = "RemoveFirst213" ->  \* dl.head = dl.head.next: dl.head is read
            ListGoto(l, [r EXCEPT !.a = l.head], "RemoveFirst213n")
      [] p = "RemoveFirst213n" -> \* ... its next is read
            IF r.a = Nil THEN ListPanics(l, r)
            ELSE ListGoto(l, [r EXCEPT !.a = l.next[r.a]], "RemoveFirst213w")
      [] p = "RemoveFirst213w" -> \* ... and dl.head is written
            ListGoto([l EXCEPT !.head = r.a], r, "RemoveFirst214")
      [] p = "RemoveFirst214" ->  \* dl.size--: dl.size is read
            ListGoto(l, [r EXCEPT !.sz = l.size], "RemoveFirst214w")
      [] p = "RemoveFirst214w" -> \* ... and written
            ListGoto([l EXCEPT !.size = r.sz - 1], r, "RemoveFirst215")
      [] p = "RemoveFirst215" ->  \* if dl.size == 0
            ListGoto(l, r, IF l.size = 0 THEN "RemoveFirst216" ELSE "RemoveFirst218")
      [] p = "RemoveFirst216" ->  \* dl.tail = nil; return value, nil
            ListLeaves([l EXCEPT !.tail = Nil], r, NoErr)
      [] p = "RemoveFirst218" ->  \* dl.head.prev = nil: dl.head is read
            ListGoto(l, [r EXCEPT !.a = l.head], "RemoveFirst218w")
      [] p = "RemoveFirst218w" -> \* ... and its prev is written; return value, nil
            IF r.a = Nil THEN ListPanics(l, r)
            ELSE ListLeaves([l EXCEPT !.prev[r.a] = Nil], r, NoErr)

\* the body of RemoveLast(), lines 228-239
RemoveLast_at(l, r, p) ==
    CASE p = "RemoveLast228" ->   \* if dl.size == 0
            IF l.size = 0 THEN ListLeaves(l, r, "linked list empty")
            ELSE ListGoto(l, r, "RemoveLast231")
      [] p = "RemoveLast231" ->   \* value := dl.tail.val
            IF l.tail = Nil THEN ListPanics(l, r)
            ELSE ListGoto(l, r, "RemoveLast232")
      [] p = "RemoveLast232" ->   \* dl.tail = dl.tail.prev: dl.tail is read
            ListGoto(l, [r EXCEPT !.a = l.tail], "RemoveLast232p")
      [] p = "RemoveLast232p" ->  \* ... its prev is read
            IF r.a = Nil THEN ListPanics(l, r)
            ELSE ListGoto(l, [r EXCEPT !.a = l.prev[r.a]], "RemoveLast232w")
      [] p = "RemoveLast232w" ->  \* ... and dl.tail is written
            ListGoto([l EXCEPT !.tail = r.a], r, "RemoveLast233")
      [] p = "RemoveLast233" ->   \* dl.size--: dl.size is read
            ListGoto(l, [r EXCEPT !.sz = l.size], "RemoveLast233w")
      [] p = "RemoveLast233w" ->  \* ... and written
            ListGoto([l EXCEPT !.size = r.sz - 1], r, "RemoveLast234")
      [] p = "RemoveLast234" ->   \* if dl.size == 0
            ListGoto(l, r, IF l.size = 0 THEN "RemoveLast235" ELSE "RemoveLast237")
      [] p = "RemoveLast235" ->   \* dl.head = nil; return value, nil
            ListLeaves([l EXCEPT !.head = Nil], r, NoErr)
      [] p = "RemoveLast237" ->   \* dl.tail.next = nil: dl.tail is read
            ListGoto(l, [r EXCEPT !.a = l.tail], "RemoveLast237w")
      [] p = "RemoveLast237w" ->  \* ... and its next is written; return value, nil
            IF r.a = Nil THEN ListPanics(l, r)
            ELSE ListLeaves([l EXCEPT !.next[r.a] = Nil], r, NoErr)

\* removeNode(node), lines 244-256
removeNode_at(l, r, p) ==
    CASE p = "removeNode244" ->   \* if node.prev == nil
            IF r.node = Nil THEN ListPanics(l, r)
            ELSE IF l.prev[r.node] = Nil THEN ListCalls(l, r, "RemoveFirst")
            ELSE ListGoto(l, r, "removeNode247")
      [] p = "removeNode247" ->   \* if node.next == nil
            IF l.next[r.node] = Nil THEN ListCalls(l, r, "RemoveLast")
            ELSE ListGoto(l, r, "removeNode250")
      [] p = "removeNode250" ->   \* node.next.prev = node.prev: node.next is read
            ListGoto(l, [r EXCEPT !.a = l.next[r.node]], "removeNode250p")
      [] p = "removeNode250p" ->  \* ... node.prev is read
            ListGoto(l, [r EXCEPT !.b = l.prev[r.node]], "removeNode250w")
      [] p = "removeNode250w" ->  \* ... and the prev of the next node is written
            IF r.a = Nil THEN ListPanics(l, r)
            ELSE ListGoto([l EXCEPT !.prev[r.a] = r.b], r, "removeNode251")
      [] p = "removeNode251" ->   \* node.prev.next = node.next: node.prev is read
            ListGoto(l, [r EXCEPT !.a = l.prev[r.node]], "removeNode251n")
      [] p = "removeNode251n" ->  \* ... node.next is read
            ListGoto(l, [r EXCEPT !.b = l.next[r.node]], "removeNode251w")
      [] p = "removeNode251w" ->  \* ... and the next of the previous node is written
            IF r.a = Nil THEN ListPanics(l, r)
            ELSE ListGoto([l EXCEPT !.next[r.a] = r.b], r, "removeNode253")
      [] p = "removeNode253" ->   \* result := node.val; node.prev = nil
            ListGoto([l EXCEPT !.prev[r.node] = Nil], r, "removeNode254")
      [] p = "removeNode254" ->   \* node.next = nil
            ListGoto([l EXCEPT !.next[r.node] = Nil], r, "removeNode255")
      [] p = "removeNode255" ->   \* dl.size--: dl.size is read
            ListGoto(l, [r EXCEPT !.sz = l.size], "removeNode255w")
      [] p = "removeNode255w" ->  \* ... and written; return result, nil
            ListDone([l EXCEPT !.size = r.sz - 1], r, NoErr)

\* Remove(elem), lines 262-271; the traveler is kept in node
Remove_at(l, r, p) ==
    CASE p = "Remove262" ->       \* if dl.size == 0
            IF l.size = 0 THEN ListDone(l, r, "linked list empty")
            ELSE ListGoto(l, r, "Remove266")
      [] p = "Remove266" ->       \* traveler := dl.head
            ListGoto(l, [r EXCEPT !.node = l.head], "Remove267")
      [] p = "Remove267" ->       \* traveler != nil; traveler.val == elem;
                                  \* traveler = traveler.next
            IF r.node = Nil THEN ListDone(l, r, "value not found")
            ELSE IF l.val[r.node] = r.elem THEN ListGoto(l, r, "removeNode244")
            ELSE ListGoto(l, [r EXCEPT !.node = l.next[r.node]], "Remove267")

\* RemoveAt(idx), lines 277-294; the traveler is kept in node
RemoveAt_at(l, r, p) ==
    CASE p = "RemoveAt277" ->     \* if idx < 0 || idx >= dl.size
            IF r.idx < 0 \/ r.idx >= l.size THEN ListDone(l, r, "invalid index")
            ELSE ListGoto(l, r, "RemoveAt282")
      [] p = "RemoveAt282" ->     \* if idx < dl.size/2
            ListGoto(l, r, IF r.idx < l.size \div 2 THEN "RemoveAt283"
                           ELSE "RemoveAt288")
      [] p = "RemoveAt283" ->     \* traveler = dl.head; i := 0; i < idx
            ListGoto(l, [r EXCEPT !.node = l.head, !.i = 0],
                     IF 0 < r.idx THEN "RemoveAt285" ELSE "removeNode244")
      [] p = "RemoveAt285" ->     \* traveler = traveler.next; i++; i < idx
            IF r.node = Nil THEN ListPanics(l, r)
            ELSE ListGoto(l, [r EXCEPT !.node = l.next[r.node], !.i = r.i + 1],
                          IF r.i + 1 < r.idx THEN "RemoveAt285" ELSE "removeNode244")
      [] p = "RemoveAt288" ->     \* traveler = dl.tail
            ListGoto(l, [r EXCEPT !.node = l.tail], "RemoveAt289")
      [] p = "RemoveAt289" ->     \* i := dl.size - 1; i > idx
            ListGoto(l, [r EXCEPT !.i = l.size - 1],
                     IF l.size - 1 > r.idx THEN "RemoveAt290" ELSE "removeNode244")
      [] p = "RemoveAt290" ->     \* traveler = traveler.prev; i--; i > idx
            IF r.node = Nil THEN ListPanics(l, r)
            ELSE ListGoto(l, [r EXCEPT !.node = l.prev[r.node], !.i = r.i - 1],
                          IF r.i - 1 > r.idx THEN "RemoveAt290" ELSE "removeNode244")

AddAtPoints ==
    {"AddAt158", "AddAt164", "AddAt167", "AddAt170", "AddAt172", "AddAt173",
     "AddAt174", "AddAt174w", "AddAt175", "AddAt175w"}
AddLastPoints ==
    {"AddLast123", "AddLast125", "AddLast126", "AddLast128", "AddLast129",
     "AddLast129w", "AddLast130", "AddLast130n", "AddLast130w", "AddLast132",
     "AddLast132w"}
AddFirstPoints ==
    {"AddFirst140", "AddFirst142", "AddFirst143", "AddFirst145", "AddFirst146",
     "AddFirst146w", "AddFirst147", "AddFirst147p", "AddFirst147w",
     "AddFirst149", "AddFirst149w"}
RemoveFirstPoints ==
    {"RemoveFirst209", "RemoveFirst212", "RemoveFirst213", "RemoveFirst213n",
     "RemoveFirst213w", "RemoveFirst214", "RemoveFirst214w", "RemoveFirst215",
     "RemoveFirst216", "RemoveFirst218", "RemoveFirst218w"}
RemoveLastPoints ==
    {"RemoveLast228", "RemoveLast231", "RemoveLast232", "RemoveLast232p",
     "RemoveLast232w", "RemoveLast233", "RemoveLast233w", "RemoveLast234",
     "RemoveLast235", "RemoveLast237", "RemoveLast237w"}
removeNodePoints ==
    {"removeNode244", "removeNode247", "removeNode250", "removeNode250p",
     "removeNode250w", "removeNode251", "removeNode251n", "removeNode251w",
     "removeNode253", "removeNode254", "removeNode255", "removeNode255w"}
RemovePoints == {"Remove262", "Remove266", "Remove267"}
RemoveAtPoints ==
    {"RemoveAt277", "RemoveAt282", "RemoveAt283", "RemoveAt285", "RemoveAt288",
     "RemoveAt289", "RemoveAt290"}

\* goroutine g makes the step n
ListTake(g, n) ==
    /\ ~crash
    /\ IF n.pc = "panic"
       THEN /\ crash' = TRUE
            /\ pc' = [pc EXCEPT ![g] = "panic"]
            /\ UNCHANGED <<list, mutex, local, log>>
       ELSE /\ crash' = crash
            /\ list' = n.l
            /\ mutex' = IF n.pc = "Lock" THEN [mutex EXCEPT !.pending = @ \cup {g}]
                        ELSE mutex
            /\ IF n.pc = "return"
               THEN /\ log' = [log EXCEPT ![g] =
                                 Append(@, [call |-> local[g].call, err |-> n.err])]
                    /\ local' = [local EXCEPT ![g] = NoListCall]
                    /\ pc' = [pc EXCEPT ![g] = "idle"]
               ELSE /\ log' = log
                    /\ local' = [local EXCEPT ![g] = n.r]
                    /\ pc' = [pc EXCEPT ![g] = n.pc]
    /\ UNCHANGED notListRace

ListAddAtStep(g) ==
    pc[g] \in AddAtPoints /\ ListTake(g, AddAt_at(list, local[g], pc[g]))
ListAddLastStep(g) ==
    pc[g] \in AddLastPoints /\ ListTake(g, AddLast_at(list, local[g], pc[g]))
ListAddFirstStep(g) ==
    pc[g] \in AddFirstPoints /\ ListTake(g, AddFirst_at(list, local[g], pc[g]))
ListRemoveFirstStep(g) ==
    pc[g] \in RemoveFirstPoints /\ ListTake(g, RemoveFirst_at(list, local[g], pc[g]))
ListRemoveLastStep(g) ==
    pc[g] \in RemoveLastPoints /\ ListTake(g, RemoveLast_at(list, local[g], pc[g]))
ListRemoveNodeStep(g) ==
    pc[g] \in removeNodePoints /\ ListTake(g, removeNode_at(list, local[g], pc[g]))
ListRemoveStep(g) ==
    pc[g] \in RemovePoints /\ ListTake(g, Remove_at(list, local[g], pc[g]))
ListRemoveAtStep(g) ==
    pc[g] \in RemoveAtPoints /\ ListTake(g, RemoveAt_at(list, local[g], pc[g]))

ListRaceNext ==
    \E g \in Goroutines :
        \/ \E c \in LockedCalls : \E v \in TVals :
              ListStart(g, c, 0, IF c \in {"AddFirst", "AddLast"} THEN v ELSE ZeroT)
        \/ \E i \in 0..MaxList : \E v \in TVals : ListStart(g, "AddAt", i, v)
        \/ \E i \in 0..MaxList : ListStart(g, "RemoveAt", i, ZeroT)
        \/ \E v \in TVals : ListStart(g, "Remove", 0, v)
        \/ ListLockStep(g)
        \/ ListUnlockStep(g)
        \/ ListAddAtStep(g)
        \/ ListAddLastStep(g)
        \/ ListAddFirstStep(g)
        \/ ListRemoveFirstStep(g)
        \/ ListRemoveLastStep(g)
        \/ ListRemoveNodeStep(g)
        \/ ListRemoveStep(g)
        \/ ListRemoveAtStep(g)

ListRaceSpec == ListRaceInit /\ [][ListRaceNext]_vars

\* C29: every public method runs under the mutex, so whatever the
\* interleaving of AddAt, Remove and RemoveAt with AddFirst, AddLast,
\* RemoveFirst and RemoveLast of another goroutine, no call dereferences a nil
\* pointer and, once all calls have returned, prev and next agree, head and
\* tail are the ends and size is the number of linked nodes
C29_ListCallsAtomic ==
    /\ ~crash
    /\ (\A g \in Goroutines : pc[g] = "idle") => WellFormed(list)

\* ===================================== UnorderedSet shared by goroutines
\* src/unnamed/part_006 run by Goroutines. Insert, Remove and Clear hold
\* lockObj for their body. Iter() makes the channel, starts the iterator
\* goroutine and returns; the iterator goroutine takes the read lock, copies
\* the items, releases the lock and sends the copy item by item. The goroutine
\* that called Iter() receives until the channel is closed.
\* local[g].at is the content of the set when g called Iter(), and
\* local[g].quiet tells whether no other call was in progress at that moment.
notSetRace == <<trieVars, treeVars, heapVars, minVars, stack, queue, list, abs, crash, op, ret>>

SetCalls == {"Insert", "Remove", "Clear"}

NoSetCall ==
    [call |-> "", item |-> ZeroT, at |-> {}, quiet |-> FALSE, items |-> {},
     got |-> {}]

SetRaceInit ==
    /\ set = NewUnorderedSet
    /\ abs = <<>>
    /\ crash = FALSE
    /\ mutex = [readers |-> [g \in Goroutines |-> 0], writer |-> 0, pending |-> {}]
    /\ pc = [g \in Goroutines |-> "idle"]
    /\ local = [g \in Goroutines |-> NoSetCall]
    /\ log = [g \in Goroutines |-> <<>>]
    /\ op = [name |-> "go"]
    /\ ret = NoValue
    /\ TreeIdle /\ HeapIdle /\ MinIdle
    /\ StackIdle /\ QueueIdle /\ ListIdle /\ TrieIdle

\* goroutine g calls Insert(item), Remove(item) or Clear()
SetStart(g, c, item) ==
    /\ pc[g] = "idle"
    /\ Len(log[g]) < MaxCalls
    /\ local' = [local EXCEPT ![g] = [NoSetCall EXCEPT !.call = c, !.item = item]]
    /\ pc' = [pc EXCEPT ![g] = "Lock"]
    /\ mutex' = [mutex EXCEPT !.pending = @ \cup {g}]
    /\ UNCHANGED <<set, log, notSetRace>>

\* us.lockObj.Lock() returns
SetLockStep(g) ==
    /\ pc[g] = "Lock"
    /\ CanLock(mutex)
    /\ mutex' = [mutex EXCEPT !.writer = g, !.pending = @ \ {g}]
    /\ pc' = [pc EXCEPT ![g] = "body"]
    /\ UNCHANGED <<set, local, log, notSetRace>>

\* the body of Insert, Remove or Clear, the deferred Unlock and the return
SetBodyStep(g) ==
    /\ pc[g] = "body"
    /\ set' = CASE local[g].call = "Insert" -> Set_Insert(set, local[g].item)
                [] local[g].call = "Remove" -> Set_Remove(set, local[g].item)
                [] local[g].call = "Clear" -> Set_Clear(set)
    /\ mutex' = Unlock(mutex, g)
    /\ log' = [log EXCEPT ![g] = Append(@, [call |-> local[g].call, at |-> {},
                                            quiet |-> FALSE, got |-> {}])]
    /\ local' = [local EXCEPT ![g] = NoSetCall]
    /\ pc' = [pc EXCEPT ![g] = "idle"]
    /\ UNCHANGED notSetRace

\* Iter(): ch := make(chan T); go func() {...}(); return ch
IterCall(g) ==
    /\ pc[g] = "idle"
    /\ Len(log[g]) < MaxCalls
    /\ local' = [local EXCEPT ![g] =
                    [NoSetCall EXCEPT !.call = "Iter", !.at = set.items,
                                      !.quiet = \A h \in Goroutines : pc[h] = "idle"]]
    /\ pc' = [pc EXCEPT ![g] = "RLock"]
    /\ UNCHANGED <<set, mutex, log, notSetRace>>

\* iterator goroutine: us.lockObj.RLock() returns
IterRLockStep(g) ==
    /\ pc[g] = "RLock"
    /\ CanRLock(mutex)
    /\ mutex' = [mutex EXCEPT !.readers[g] = @ + 1]
    /\ pc' = [pc EXCEPT ![g] = "copy"]
    /\ UNCHANGED <<set, local, log, notSetRace>>

\* iterator goroutine: the items are copied and the read lock is released
IterCopyStep(g) ==
    /\ pc[g] = "copy"
    /\ local' = [local EXCEPT ![g].items = Set_snapshot(set)]
    /\ mutex' = RUnlock(mutex, g)
    /\ pc' = [pc EXCEPT ![g] = "send"]
    /\ UNCHANGED <<set, log, notSetRace>>

\* iterator goroutine: "ch <- item" for the next item of the copy, received by
\* the goroutine that called Iter()
IterSendStep(g) ==
    /\ pc[g] = "send"
    /\ \E item \in local[g].items \ local[g].got :
          local' = [local EXCEPT ![g].got = @ \cup {item}]
    /\ UNCHANGED <<set, mutex, pc, log, notSetRace>>

\* iterator goroutine: close(ch); the receiver has all that was streamed
IterCloseStep(g) ==
    /\ pc[g] = "send"
    /\ local[g].items = local[g].got
    /\ log' = [log EXCEPT ![g] = Append(@, [call |-> "Iter", at |-> local[g].at,
                                            quiet |-> local[g].quiet,
                                            got |-> local[g].got])]
    /\ local' = [local EXCEPT ![g] = NoSetCall]
    /\ pc' = [pc EXCEPT ![g] = "idle"]
    /\ UNCHANGED <<set, mutex, notSetRace>>

SetRaceNext ==
    \E g \in Goroutines :
        \/ \E c \in SetCalls : \E v \in TVals :
              SetStart(g, c, IF c = "Clear" THEN ZeroT ELSE v)
        \/ SetLockStep(g)
        \/ SetBodyStep(g)
        \/ IterCall(g)
        \/ IterRLockStep(g)
        \/ IterCopyStep(g)
        \/ IterSendStep(g)
        \/ IterCloseStep(g)

SetRaceSpec == SetRaceInit /\ [][SetRaceNext]_vars

\* C30: Iter() is a snapshot of the moment of the call: when no other call is
\* in progress as Iter() is called, what the channel streams is exactly what
\* the set held at that moment, whatever other goroutines Insert, Remove or
\* Clear after Iter() has returned
C30_IterIsSnapshot ==
    \A g \in Goroutines : \A i \in 1..Len(log[g]) :
        (log[g][i].call = "Iter" /\ log[g][i].quiet) =>
            log[g][i].got = log[g][i].at

\* =================================================================== Trie
\* one caller; words is the abstract set the trie is compared with
notTrie == <<treeVars, heapVars, minVars, procVars,
             stack, queue, list, set, abs, crash>>

IsPrefixOf(p, w) == Len(p) <= Len(w) /\ SubSeq(w, 1, Len(p)) = p

TrieInit ==
    /\ trie = NewTrie
    /\ words = {}
    /\ op = [name |-> "NewTrie", word |-> <<>>, had |-> {}]
    /\ ret = FALSE
    /\ TreeIdle /\ HeapIdle /\ MinIdle /\ ProcIdle
    /\ StackIdle /\ QueueIdle /\ ListIdle /\ SetIdle
    /\ abs = <<>> /\ crash = FALSE

TrieOp(name, word) == [name |-> name, word |-> word, had |-> words]

TrieInsertCall ==
    /\ Trie_Size(trie) < MaxWords
    /\ \E word \in Strings :
        /\ trie' = Trie_Insert(trie, word)
        /\ words' = words \cup ({word} \cap Words)
        /\ op' = TrieOp("Insert", word)
        /\ ret' = FALSE
    /\ UNCHANGED notTrie

TrieRemoveCall ==
    /\ \E word \in Strings :
        /\ trie' = Trie_Remove(trie, word).t
        /\ words' = words \ {word}
        /\ op' = TrieOp("Remove", word)
        /\ ret' = Trie_Remove(trie, word).ok
    /\ UNCHANGED notTrie

TrieSearchCall ==
    /\ \E word \in Strings :
        /\ op' = TrieOp("Search", word)
        /\ ret' = Trie_Search(trie, word)
    /\ UNCHANGED <<trieVars, notTrie>>

StartsWithCall ==
    /\ \E prefix \in Strings :
        /\ op' = TrieOp("StartsWith", prefix)
        /\ ret' = Trie_StartsWith(trie, prefix)
    /\ UNCHANGED <<trieVars, notTrie>>

TrieSizeCall ==
    /\ op' = TrieOp("Size", <<>>)
    /\ ret' = Trie_Size(trie)
    /\ UNCHANGED <<trieVars, notTrie>>

TrieNext ==
    \/ TrieInsertCall
    \/ TrieRemoveCall
    \/ TrieSearchCall
    \/ StartsWithCall
    \/ TrieSizeCall

TrieSpec == TrieInit /\ [][TrieNext]_vars

\* Search finds exactly the words of the set and Size counts them
TrieIsSet ==
    /\ \A w \in Words : Trie_Search(trie, w) = (w \in words)
    /\ Trie_Size(trie) = Cardinality(words)

\* what a call returns is what the set before the call says
TrieReturnsSet ==
    /\ op'.name = "Remove" => ret' = (op'.word \in words)
    /\ op'.name = "Search" => ret' = (op'.word \in words)
    /\ op'.name = "Size" => ret' = Cardinality(words)

\* C31: the trie behaves as a set of non-empty words: Search(w) is true
\* exactly when w is in the set (not for a mere prefix), Size() is the set's
\* cardinality, Remove(w) returns true exactly when w was stored, and the
\* words other than the removed one stay searchable.
C31_TrieIsSet == [](TrieIsSet) /\ [][TrieReturnsSet]_vars

\* a Remove has returned true for a word that had a stored proper prefix and
\* a stored extension, both of which are still stored
C31_Witness ==
    /\ op.name = "Remove" /\ ret = TRUE
    /\ \E p \in words : IsPrefixOf(p, op.word) /\ p # op.word
    /\ \E w \in words : IsPrefixOf(op.word, w) /\ w # op.word
    /\ words = op.had \ {op.word}

\* StartsWith finds exactly the prefixes of the stored words
PrefixOfStored ==
    \A p \in Words :
        Trie_StartsWith(trie, p) = (\E w \in words : IsPrefixOf(p, w))

\* every node other than root that has no children ends a word
LeavesAreWords ==
    \A p \in DOMAIN trie.node :
        (p # Root /\ trie.node[p].children = {}) => trie.node[p].isEnd

\* C33: StartsWith(p) for a non-empty p is true exactly when a stored word
\* begins with p, and no node other than root is a leaf that ends no word.
C33_StartsWithStored ==
    /\ PrefixOfStored
    /\ LeavesAreWords
    /\ (op.name = "StartsWith" /\ op.word # <<>>) =>
           ret = (\E w \in words : IsPrefixOf(op.word, w))

\* a Remove of a word of MaxWord runes has pruned its whole branch while
\* another word is still stored
C33_Witness ==
    /\ op.name = "Remove" /\ ret = TRUE
    /\ Len(op.word) = MaxWord
    /\ ~Trie_StartsWith(trie, <<op.word[1]>>)
    /\ words # {}

\* ================================================================== Deque
\* one caller; list is the deque's data
DequeVals == {ZeroT, 1}

DequeInit ==
    /\ list = NewDeque
    /\ abs = <<>>
    /\ crash = FALSE
    /\ op = [name |-> "NewDeque", idx |-> 0, elem |-> ZeroT]
    /\ ret = [value |-> ZeroT, ok |-> FALSE, err |-> NoErr]
    /\ TreeIdle /\ HeapIdle /\ MinIdle /\ ProcIdle
    /\ StackIdle /\ QueueIdle /\ SetIdle /\ TrieIdle

OfferFirstCall ==
    /\ ~crash
    /\ Deque_Size(list) < MaxList
    /\ \E v \in DequeVals :
        ListCalled("OfferFirst", 0, v, Deque_OfferFirst(list, v))
    /\ UNCHANGED abs

OfferLastCall ==
    /\ ~crash
    /\ Deque_Size(list) < MaxList
    /\ \E v \in DequeVals :
        ListCalled("OfferLast", 0, v, Deque_OfferLast(list, v))
    /\ UNCHANGED abs

PollFirstCall ==
    /\ ~crash
    /\ ListCalled("PollFirst", 0, ZeroT, Deque_PollFirst(list))
    /\ UNCHANGED abs

PollLastCall ==
    /\ ~crash
    /\ ListCalled("PollLast", 0, ZeroT, Deque_PollLast(list))
    /\ UNCHANGED abs

DequeRemoveCall ==
    /\ ~crash
    /\ \E v \in DequeVals :
        /\ list' = List_collect(Deque_Remove(list, v).l, {})
        /\ crash' = Deque_Remove(list, v).panic
        /\ ret' = Deque_Remove(list, v).value
        /\ op' = [name |-> "Remove", idx |-> 0, elem |-> v]
    /\ UNCHANGED <<abs, notList>>

DequeSizeCall ==
    /\ ~crash
    /\ ret' = Deque_Size(list)
    /\ op' = [name |-> "Size", idx |-> 0, elem |-> ZeroT]
    /\ UNCHANGED <<list, abs, crash, notList>>

DequeNext ==
    \/ OfferFirstCall
    \/ OfferLastCall
    \/ PollFirstCall
    \/ PollLastCall
    \/ DequeRemoveCall
    \/ DequeSizeCall

DequeSpec == DequeInit /\ [][DequeNext]_vars

\* the elements of the deque, first to last
Elements(d) == List_Iterate(d)

Present(seq, e) == \E i \in 1..Len(seq) : seq[i] = e

\* Remove(e) on a deque that holds e, and on one that does not
RemoveTakesFirst ==
    (op'.name = "Remove" /\ Present(Elements(list), op'.elem)) =>
        /\ ret' = TRUE
        /\ Elements(list') =
               RemoveIndex(Elements(list), FirstIndex(Elements(list), op'.elem))
        /\ Deque_Size(list') = Deque_Size(list) - 1

RemoveAbsent ==
    (op'.name = "Remove" /\ ~Present(Elements(list), op'.elem)) =>
        /\ ret' = FALSE
        /\ list' = list

\* C32: Deque.Remove(e) returns true exactly when e was present (the zero
\* value included), then removes only the first occurrence of e and Size()
\* decreases by one; it returns false and changes nothing when e is absent
\* or the deque is empty.
C32_RemoveFirstOccurrence ==
    [](~crash) /\ [][RemoveTakesFirst /\ RemoveAbsent]_vars

\* Remove of the zero value has returned true on a deque that held it twice
\* next to another element: the later zero is still there
C32_Witness ==
    /\ op.name = "Remove" /\ op.elem = ZeroT /\ ret = TRUE
    /\ Elements(list) = <<1, ZeroT>>

\* ======================================================== lock discipline
\* goroutine g holds the heap's mutex, for reading or for writing
Holds(g) == mutex.readers[g] > 0 \/ mutex.writer = g

\* goroutine g is inside bh.mutex.RLock() or bh.mutex.Lock()
Acquiring(g) == pc[g] \in {"RLock", "RLock2", "Lock"}

\* C34: no operation acquires a lock while it holds its own instance's lock:
\* in particular no goroutine calls RLock() or Lock() on the heap's mutex
\* while it already holds that mutex.
C34_LockDiscipline == \A g \in Goroutines : ~(Acquiring(g) /\ Holds(g))

\* ===================================================== Iterate and writers
\* src/linkedlist/linked_list.go 327-340.  Iterate() makes an unbuffered
\* channel and starts a goroutine that takes dl.mutex.RLock(), sends the value
\* of every node on the channel, closes the channel and releases the mutex.
\* Goroutine Consumer calls Iterate, receives from the channel and makes
\* mutating calls; goroutine Producer is the goroutine Iterate starts.  A send
\* and its receive are one step, taken when both goroutines are at it.
notIterate == <<trieVars, treeVars, heapVars, minVars, stack, queue, set,
                abs, crash, op, ret>>

Consumer == 1

Producer == 2

MutatingCalls == {"AddLast", "RemoveFirst", "Clear"}

\* iterNode is the producer's cursor, chan the state of iterChan
NoIterCall == [call |-> "", elem |-> ZeroT, iterNode |-> Nil, chan |-> "none"]

IterateInit ==
    /\ list = SharedList
    /\ abs = <<>>
    /\ crash = FALSE
    /\ mutex = [readers |-> [g \in Goroutines |-> 0], writer |-> 0, pending |-> {}]
    /\ pc = [g \in Goroutines |-> IF g = Producer THEN "off" ELSE "idle"]
    /\ local = [g \in Goroutines |-> NoIterCall]
    /\ log = [g \in Goroutines |-> <<>>]
    /\ op = [name |-> "go"]
    /\ ret = NoValue
    /\ TreeIdle /\ HeapIdle /\ MinIdle
    /\ StackIdle /\ QueueIdle /\ SetIdle /\ TrieIdle

\* a call or a receive of the consumer returns
Returned40(call, value, ok) ==
    /\ log' = [log EXCEPT ![Consumer] =
                  Append(@, [call |-> call, value |-> value, ok |-> ok])]
    /\ pc' = [pc EXCEPT ![Consumer] = "idle"]

\* Iterate(): iterChan := make(chan T); go func() {...}(); return iterChan
IterateStart ==
    /\ pc[Consumer] = "idle" /\ pc[Producer] = "off"
    /\ Len(log[Consumer]) < MaxIterCalls
    /\ local' = [local EXCEPT ![Producer] = [NoIterCall EXCEPT !.chan = "open"]]
    /\ pc' = [pc EXCEPT ![Producer] = "RLock"]
    /\ log' = [log EXCEPT ![Consumer] =
                  Append(@, [call |-> "Iterate", value |-> ZeroT, ok |-> TRUE])]
    /\ UNCHANGED <<list, mutex, notIterate>>

\* dl.mutex.RLock(); iterNode := dl.head; the first test of the loop
ProducerRLockStep ==
    /\ pc[Producer] = "RLock"
    /\ CanRLock(mutex)
    /\ mutex' = [mutex EXCEPT !.readers[Producer] = @ + 1]
    /\ local' = [local EXCEPT ![Producer].iterNode = list.head]
    /\ pc' = [pc EXCEPT ![Producer] = IF list.head = Nil THEN "close" ELSE "send"]
    /\ UNCHANGED <<list, log, notIterate>>

\* the consumer starts to receive from the channel (val := <-iterChan)
ReceiveStart ==
    /\ pc[Consumer] = "idle"
    /\ local[Producer].chan # "none"
    /\ Len(log[Consumer]) < MaxIterCalls
    /\ pc' = [pc EXCEPT ![Consumer] = "recv"]
    /\ UNCHANGED <<list, mutex, local, log, notIterate>>

\* iterChan <- iterNode.val meets the receive; iterNode = iterNode.next
SendStep ==
    /\ pc[Producer] = "send" /\ pc[Consumer] = "recv"
    /\ log' = [log EXCEPT ![Consumer] =
                  Append(@, [call |-> "recv",
                             value |-> list.val[local[Producer].iterNode],
                             ok |-> TRUE])]
    /\ local' = [local EXCEPT ![Producer].iterNode = list.next[@]]
    /\ pc' = [pc EXCEPT ![Consumer] = "idle",
                        ![Producer] = IF list.next[local[Producer].iterNode] = Nil
                                      THEN "close" ELSE "send"]
    /\ UNCHANGED <<list, mutex, notIterate>>

\* the deferred close(iterChan)
CloseStep ==
    /\ pc[Producer] = "close"
    /\ local' = [local EXCEPT ![Producer].chan = "closed"]
    /\ pc' = [pc EXCEPT ![Producer] = "RUnlock"]
    /\ UNCHANGED <<list, mutex, log, notIterate>>

\* the deferred dl.mutex.RUnlock(); the goroutine ends
ProducerRUnlockStep ==
    /\ pc[Producer] = "RUnlock"
    /\ mutex' = RUnlock(mutex, Producer)
    /\ pc' = [pc EXCEPT ![Producer] = "off"]
    /\ UNCHANGED <<list, local, log, notIterate>>

\* a receive from the closed channel returns the zero value and false
ReceiveClosedStep ==
    /\ pc[Consumer] = "recv"
    /\ local[Producer].chan = "closed"
    /\ Returned40("recv", ZeroT, FALSE)
    /\ UNCHANGED <<list, mutex, local, notIterate>>

\* the consumer calls AddLast, RemoveFirst or Clear: it is in dl.mutex.Lock()
MutateStart(c, elem) ==
    /\ pc[Consumer] = "idle"
    /\ Len(log[Consumer]) < MaxIterCalls
    /\ c = "AddLast" => List_Size(list) < MaxList
    /\ local' = [local EXCEPT ![Consumer].call = c, ![Consumer].elem = elem]
    /\ pc' = [pc EXCEPT ![Consumer] = "Lock"]
    /\ mutex' = [mutex EXCEPT !.pending = @ \cup {Consumer}]
    /\ UNCHANGED <<list, log, notIterate>>

\* dl.mutex.Lock() returns
MutateLockStep ==
    /\ pc[Consumer] = "Lock"
    /\ CanLock(mutex)
    /\ mutex' = [mutex EXCEPT !.writer = Consumer, !.pending = @ \ {Consumer}]
    /\ pc' = [pc EXCEPT ![Consumer] = "body"]
    /\ UNCHANGED <<list, local, log, notIterate>>

\* what the body of the consumer's call does to the list
MutateBody ==
    CASE local[Consumer].call = "AddLast" -> List_AddLast(list, local[Consumer].elem)
      [] local[Consumer].call = "RemoveFirst" -> List_RemoveFirst(list)
      [] local[Consumer].call = "Clear" ->
            ListResult(List_Clear(list), ZeroT, TRUE, NoErr, FALSE)

\* the body under the lock, the deferred Unlock and the return
MutateBodyStep ==
    /\ pc[Consumer] = "body"
    /\ list' = List_collect(MutateBody.l, {})
    /\ mutex' = Unlock(mutex, Consumer)
    /\ Returned40(local[Consumer].call, MutateBody.value, MutateBody.ok)
    /\ local' = [local EXCEPT ![Consumer].call = "", ![Consumer].elem = ZeroT]
    /\ UNCHANGED notIterate

IterateNext ==
    \/ IterateStart
    \/ ProducerRLockStep
    \/ ReceiveStart
    \/ SendStep
    \/ CloseStep
    \/ ProducerRUnlockStep
    \/ ReceiveClosedStep
    \/ \E v \in TVals : MutateStart("AddLast", v)
    \/ \E c \in {"RemoveFirst", "Clear"} : MutateStart(c, ZeroT)
    \/ MutateLockStep
    \/ MutateBodyStep

IterateSpec == IterateInit /\ [][IterateNext]_vars

\* C40: Iterate() does not block writers for good: while a mutating call is
\* waiting in dl.mutex.Lock(), some goroutine can take a step (so the call
\* is not waiting for a goroutine that is itself waiting).
C40_WritersReturn == (pc[Consumer] = "Lock") => ENABLED IterateNext

\* ============================================== DoublyLinkedList structure
\* size is the number of nodes next leads to from head
SizeCountsNodes == list.size = Len(List_forward(list))

\* prev leads from tail through the same nodes in reverse
BackwardIsReverse == List_backward(list) = Reverse(List_forward(list))

EndsAreNil ==
    /\ list.head # Nil => list.prev[list.head] = Nil
    /\ list.tail # Nil => list.next[list.tail] = Nil

EmptyIffNil == (list.size = 0) <=> (list.head = Nil /\ list.tail = Nil)

\* C39: with one caller, after any sequence of AddFirst, AddLast, AddAt,
\* RemoveFirst, RemoveLast, RemoveAt, Remove and Clear, size is the number of
\* nodes reachable from head via next, the same nodes are reachable in
\* reverse from tail via prev, head.prev and tail.next are nil, and size is 0
\* exactly when head and tail are both nil.
C39_ListStructure ==
    /\ SizeCountsNodes
    /\ BackwardIsReverse
    /\ EndsAreNil
    /\ EmptyIffNil
    /\ (list.head = Nil) <=> (list.tail = Nil)

\* a Remove has unlinked a middle node of a list of MaxList elements
C39_Witness ==
    /\ op.name = "Remove" /\ ret.err = NoErr
    /\ Len(abs) = MaxList - 1
    /\ abs[1] # op.elem /\ abs[Len(abs)] # op.elem

\* ================================================== TreeMap loop progress
\* A TreeMap with keys 0..MaxDeep and one value, deep enough for the loops
\* of fixInsert and fixDelete to run more than once.  The node of key k is
\* k + 1; keys already stored are not put again (Put then runs no loop) and
\* only stored keys are removed.  What the calls return is not recorded.
DeepKeys == 0..MaxDeep

DeepIds == 1..(MaxDeep + 1)

NewDeepTreeMap ==
    [root |-> Nil, size |-> 0,
     key    |-> [n \in DeepIds |-> ZeroK],
     value  |-> [n \in DeepIds |-> ZeroV],
     color  |-> [n \in DeepIds |-> Black],
     left   |-> [n \in DeepIds |-> Nil],
     right  |-> [n \in DeepIds |-> Nil],
     parent |-> [n \in DeepIds |-> Nil]]

DeepInit ==
    /\ tm = NewDeepTreeMap
    /\ panic = FALSE
    /\ trace = {}
    /\ op = [name |-> "NewTreeMap", present |-> FALSE]
    /\ ret = Void
    /\ m = <<>>
    /\ HeapIdle /\ MinIdle /\ ProcIdle /\ ContIdle

\* Put(k, "v") for a key not stored
DeepPutCall ==
    /\ ~panic
    /\ \E k \in DeepKeys \ DOMAIN m :
        /\ tm' = Obj(Put(Run(tm), k, "v"))
        /\ panic' = Put(Run(tm), k, "v").panic
        /\ m' = [x \in DOMAIN m \cup {k} |-> "v"]
    /\ op' = [name |-> "Put", present |-> FALSE]
    /\ ret' = Void
    /\ UNCHANGED <<trace, contVars, heapVars, minVars, procVars>>

\* Remove(k) for a stored key
DeepRemoveCall ==
    /\ ~panic
    /\ \E k \in DOMAIN m :
        /\ tm' = Obj(Remove(Run(tm), k).t)
        /\ panic' = Remove(Run(tm), k).t.panic
        /\ m' = [x \in DOMAIN m \ {k} |-> "v"]
    /\ op' = [name |-> "Remove", present |-> TRUE]
    /\ ret' = Void
    /\ UNCHANGED <<trace, contVars, heapVars, minVars, procVars>>

DeepNext ==
    \/ DeepPutCall
    \/ DeepRemoveCall

TreeDeepSpec == DeepInit /\ [][DeepNext]_vars

\* number of parent links from n up to the root
RECURSIVE Depth(_, _, _)
Depth(t, n, k) ==
    IF n = Nil \/ n = t.root \/ k = 0 THEN 0
    ELSE 1 + Depth(t, t.parent[n], k - 1)

Level(t, n) == Depth(t, n, Cardinality(DOMAIN t.parent))

\* level of the subject x of fixDelete, which may be nil below parent p
LevelBelow(t, x, p) == IF x = t.root THEN 0 ELSE 1 + Level(t, p)

\* the branches that call rotateLeft or rotateRight, once each
RotatingCases ==
    {"fi_left_case2", "fi_left_case3", "fi_right_case2", "fi_right_case3",
     "fd_left_case1", "fd_left_case3", "fd_left_case4",
     "fd_right_case1", "fd_right_case3", "fd_right_case4"}

Rotations(t) == Cardinality(t.path \cap RotatingCases)

Unmarked(t) == [t EXCEPT !.path = {}]

\* "for n != t.root && t.isRed(n.parent)"
fixInsertGoesOn(t, n) == ~t.panic /\ n # t.root /\ isRed(t, t.parent[n])

\* one iteration of the loop of fixInsert: the state, the new n, and whether
\* the iteration left the loop by break
fixInsertIteration(t, n) ==
    LET g == getGrandParent(t, n) IN
    IF g = Nil THEN [t |-> Mark(t, "fi_no_grandparent"), n |-> n, broke |-> TRUE]
    ELSE IF t.parent[n] = t.left[g] THEN
        IF isRed(t, t.right[g])
        THEN [t |-> fixInsertCase1(t, n, g, t.right[g], "fi_left_case1"),
              n |-> g, broke |-> FALSE]
        ELSE [t |-> fixInsertLeftBlack(t, n, g).t,
              n |-> fixInsertLeftBlack(t, n, g).n, broke |-> FALSE]
    ELSE
        IF isRed(t, t.left[g])
        THEN [t |-> fixInsertCase1(t, n, g, t.left[g], "fi_right_case1"),
              n |-> g, broke |-> FALSE]
        ELSE [t |-> fixInsertRightBlack(t, n, g).t,
              n |-> fixInsertRightBlack(t, n, g).n, broke |-> FALSE]

\* the iteration r of fixInsert from (t, n) moved n two levels up without a
\* rotation, or was the last one and made at most two rotations
fixInsertStepOk(t, n, r) ==
    \/ /\ Rotations(r.t) = 0
       /\ Level(r.t, r.n) = Level(t, n) - 2
    \/ /\ r.broke \/ ~fixInsertGoesOn(r.t, r.n)
       /\ Rotations(r.t) <= 2

\* every iteration from (t, n) on is as above and the loop ends within fuel
\* iterations
RECURSIVE fixInsertProgress(_, _, _, _)
fixInsertProgress(t, n, r, fuel) ==
    /\ fixInsertStepOk(t, n, r)
    /\ \/ r.broke
       \/ ~fixInsertGoesOn(r.t, r.n)
       \/ /\ fuel > 0
          /\ fixInsertProgress(Unmarked(r.t), r.n,
                               fixInsertIteration(Unmarked(r.t), r.n), fuel - 1)

\* the tree the iterations of fixInsert leave, from (t, n)
RECURSIVE fixInsertIterate(_, _, _)
fixInsertIterate(t, n, fuel) ==
    IF ~fixInsertGoesOn(t, n) \/ fuel = 0 THEN t
    ELSE IF fixInsertIteration(t, n).broke THEN fixInsertIteration(t, n).t
    ELSE fixInsertIterate(fixInsertIteration(t, n).t,
                          fixInsertIteration(t, n).n, fuel - 1)

\* "for (x != t.root) && (x == nil || !t.isRed(x))" and the break on parent == nil
fixDeleteGoesOn(t, x, p) ==
    ~t.panic /\ x # t.root /\ (x = Nil \/ ~isRed(t, x)) /\ p # Nil

\* one iteration of the loop of fixDelete
fixDeleteIteration(t, x, p) ==
    IF x = t.left[p] THEN fixDeleteLeft(t, x, p) ELSE fixDeleteRight(t, x, p)

\* the iteration r of fixDelete from (t, x, p) moved x one level up without a
\* rotation, or was the last one and made at most three rotations
fixDeleteStepOk(t, x, p, r) ==
    \/ /\ Rotations(r.t) = 0
       /\ LevelBelow(r.t, r.x, r.parent) = LevelBelow(t, x, p) - 1
    \/ /\ ~fixDeleteGoesOn(r.t, r.x, r.parent)
       /\ Rotations(r.t) <= 3

RECURSIVE fixDeleteProgress(_, _, _, _, _)
fixDeleteProgress(t, x, p, r, fuel) ==
    /\ fixDeleteStepOk(t, x, p, r)
    /\ \/ ~fixDeleteGoesOn(r.t, r.x, r.parent)
       \/ /\ fuel > 0
          /\ fixDeleteProgress(Unmarked(r.t), r.x, r.parent,
                               fixDeleteIteration(Unmarked(r.t), r.x, r.parent),
                               fuel - 1)

\* the tree the iterations of fixDelete leave, from (t, x, p)
RECURSIVE fixDeleteIterate(_, _, _, _)
fixDeleteIterate(t, x, p, fuel) ==
    IF ~fixDeleteGoesOn(t, x, p) \/ fuel = 0 THEN t
    ELSE fixDeleteIterate(fixDeleteIteration(t, x, p).t,
                          fixDeleteIteration(t, x, p).x,
                          fixDeleteIteration(t, x, p).parent, fuel - 1)

\* the number of iterations the loop of fixDelete makes from (t, x, p)
RECURSIVE fixDeleteCount(_, _, _, _)
fixDeleteCount(t, x, p, fuel) ==
    IF ~fixDeleteGoesOn(t, x, p) \/ fuel = 0 THEN 0
    ELSE 1 + fixDeleteCount(fixDeleteIteration(t, x, p).t,
                            fixDeleteIteration(t, x, p).x,
                            fixDeleteIteration(t, x, p).parent, fuel - 1)

\* the tree and the node Put(k, v) hands to fixInsert
PutFix(t, k) ==
    [t |-> Unmarked(setRoot(insertBST(build(t, k + 1, k, "v"), t.root, k + 1))),
     n |-> k + 1]

\* the tree, x and parent Remove(k) hands to fixDelete, if it calls it
RemoveFix(t, k) ==
    IF findNode(t, k) = Nil THEN [calls |-> FALSE]
    ELSE IF unlink(t, findNode(t, k)).originalColor # Black THEN [calls |-> FALSE]
    ELSE [calls |-> TRUE,
          t |-> Unmarked(unlink(t, findNode(t, k)).t),
          x |-> unlink(t, findNode(t, k)).x,
          p |-> unlink(t, findNode(t, k)).xParent]

PutProgress(t, a) ==
    /\ fixInsertGoesOn(a.t, a.n) =>
           fixInsertProgress(a.t, a.n, fixInsertIteration(a.t, a.n),
                             Cardinality(DOMAIN t.parent))
    /\ Obj(fixInsertIterate(a.t, a.n, Cardinality(DOMAIN t.parent)))
           = Obj(fixInsertLoop(a.t, a.n))

RemoveProgress(t, a) ==
    /\ (a.calls /\ fixDeleteGoesOn(a.t, a.x, a.p)) =>
           fixDeleteProgress(a.t, a.x, a.p, fixDeleteIteration(a.t, a.x, a.p),
                             Cardinality(DOMAIN t.parent))
    /\ a.calls =>
           Obj(fixDeleteIterate(a.t, a.x, a.p, Cardinality(DOMAIN t.parent)))
               = Obj(fixDeleteLoop(a.t, a.x, a.p).t)

\* C36: on every reachable tree the loops of Put and Remove end: every
\* iteration of the fixInsert loop moves n two levels toward the root or is
\* the last one, after at most two rotations, and every iteration of the
\* fixDelete loop moves x one level toward the root or is the last one,
\* after at most three rotations.
\* (The iterations counted are those of the loops Put and Remove run.)
C36_LoopsEnd ==
    /\ ~panic
    /\ \A k \in DeepKeys \ DOMAIN m : PutProgress(Run(tm), PutFix(Run(tm), k))
    /\ \A k \in DOMAIN m : RemoveProgress(Run(tm), RemoveFix(Run(tm), k))

\* a tree on which some Remove makes the fixDelete loop run twice: x moves
\* one level up and the second iteration ends the loop with a rotation
C36_Witness ==
    \E k \in DOMAIN m :
        /\ RemoveFix(Run(tm), k).calls
        /\ fixDeleteCount(RemoveFix(Run(tm), k).t, RemoveFix(Run(tm), k).x,
                          RemoveFix(Run(tm), k).p, MaxDeep) >= 2
        /\ "rotateLeft" \in Remove(Run(tm), k).t.path

\* ================================================ TreeMap parent pointers
\* the nodes of the subtree of n, following left and right
RECURSIVE Subtree(_, _, _)
Subtree(t, n, fuel) ==
    IF n = Nil \/ fuel = 0 THEN {}
    ELSE {n} \cup Subtree(t, t.left[n], fuel - 1)
             \cup Subtree(t, t.right[n], fuel - 1)

TreeNodes(t) == Subtree(t, t.root, Cardinality(DOMAIN t.parent))

ChildrenPointBack(t, n) ==
    /\ t.left[n] # Nil => t.parent[t.left[n]] = n
    /\ t.right[n] # Nil => t.parent[t.right[n]] = n

\* C38: in every state reached by Put and Remove, root.parent is nil and
\* every child of every node of the tree has that node as its parent.
C38_ParentsConsistent ==
    /\ ~panic
    /\ tm.root # Nil => tm.parent[tm.root] = Nil
    /\ \A n \in TreeNodes(tm) : ChildrenPointBack(tm, n)

\* a Remove has replaced a node with two children by a successor that was not
\* its right child, and the successor now has both children
C38_Witness ==
    /\ op.name = "Remove" /\ op.present
    /\ "rm_succ_deep" \in trace
    /\ \E n \in TreeNodes(tm) : tm.left[n] # Nil /\ tm.right[n] # Nil
    /\ tm.size >= 4

\* ============================================ BinaryHeap keeps its elements
SameElements(before, after) ==
    \A e \in Elems(bh.cmp) : Count(after, e) = Count(before, e)

\* Add(v) on the heap as it is adds one occurrence of v, and its sift-up
\* permutes the slice with v appended
AddAddsOne ==
    \A v \in Elems(bh.cmp) :
        /\ OneMore(Add(bh, v).data, bh.data, v)
        /\ SameElements(Append(bh.data, v),
                        swim(Append(bh.data, v), bh.cmp, Len(bh.data)))

\* the Add that was called added one occurrence of one element
AddedOne ==
    op'.name = "Add" => \E v \in Elems(bh.cmp) : OneMore(bh'.data, bh.data, v)

\* the sift-down of removeAt(0) permutes the slice it starts from: the last
\* element moved to the root and the slice shortened by one
SinkPermutes ==
    Len(bh.data) > 0 =>
        SameElements(
            SubSeq([bh.data EXCEPT ![1] = bh.data[Len(bh.data)]],
                   1, Len(bh.data) - 1),
            removeAt(bh, 0).h.data)

\* C37: Add(v) changes the multiset of stored elements only by adding one
\* occurrence of v, a successful Poll only by removing one occurrence of the
\* element it returns, and sift-up and sift-down only permute the slice.
C37_ElementsConserved ==
    [](AddAddsOne /\ SinkPermutes) /\ [][AddedOne /\ PollTakesOne]_vars

\* a Poll has returned an element of which the heap still holds another
\* occurrence, next to a different element
C37_Witness ==
    /\ op.name = "Poll" /\ ~ret.err
    /\ Count(bh.data, ret.value) >= 1
    /\ \E i \in 1..Len(bh.data) : bh.data[i] # ret.value
    /\ Len(bh.data) >= 3

\* ---------------------------------------------- BinaryHeap reader snapshots
\* no goroutine is inside the body of Add, Poll or Clear: bh.data is what the
\* mutating calls that have taken the mutex so far have made of it
BetweenWrites ==
    /\ mutex.writer = 0
    /\ \A h \in Goroutines :
           pc[h] \notin {"append", "index", "swim", "check", "removeAt", "clear"}

\* the result of the Sort or Peek call goroutine g returns from in this step
ReaderReturns(g, c) ==
    /\ pc[g] = "read" /\ pc'[g] = "idle"
    /\ local[g].call = c

Result(g) == log'[g][Len(log'[g])]

\* a returning Sort hands out the elements stored between two mutating calls,
\* each as often as it is stored, none outranking the one before it
SortReadsSnapshot ==
    \A g \in Goroutines :
        ReaderReturns(g, "Sort") =>
            /\ BetweenWrites
            /\ Len(Result(g).value) = Len(bh.data)
            /\ SameElements(bh.data, Result(g).value)
            /\ \A i \in 1..(Len(bh.data) - 1) :
                   ~cmp(bh.cmp, Result(g).value[i + 1], Result(g).value[i])

\* a returning Peek hands out the root stored between two mutating calls,
\* which no stored element outranks, or fails when nothing is stored
PeekReadsSnapshot ==
    \A g \in Goroutines :
        ReaderReturns(g, "Peek") =>
            /\ BetweenWrites
            /\ IF Len(bh.data) = 0 THEN Result(g).err
               ELSE /\ ~Result(g).err
                    /\ Result(g).value = bh.data[1]
                    /\ \A i \in 1..Len(bh.data) :
                           ~cmp(bh.cmp, bh.data[i], Result(g).value)

\* C35: whatever the interleaving of Sort() and Peek() with concurrent Add and
\* Poll calls, Sort() returns a permutation, in extraction order, of what the
\* heap holds at one point between two mutating operations, and Peek() returns
\* the root the heap has at such a point.
C35_ReadersSeeSnapshot == [][SortReadsSnapshot /\ PeekReadsSnapshot]_vars

\* a Sort has returned two different elements while the other goroutine's Add
\* waits for the mutex
C35_Witness ==
    \E g, h \in Goroutines :
        /\ g # h
        /\ pc[g] = "idle" /\ Len(log[g]) > 0
        /\ log[g][Len(log[g])].call = "Sort"
        /\ Len(log[g][Len(log[g])].value) = 2
        /\ log[g][Len(log[g])].value[1] # log[g][Len(log[g])].value[2]
        /\ pc[h] = "Lock" /\ local[h].call = "Add"

====
